---------------------------- MODULE Spec2Model ----------------------------
(***************************************************************************)
(* A model of the damage calculator of lol-damage-calcs                    *)
(* (src/src/calculators/damage.py with the entity records of               *)
(* src/src/models).  One pending call of the public API is drawn in the    *)
(* initial state and the action of that operation runs the whole handler.  *)
(* Python floats are modelled as exact rationals <<numerator, denominator>>*)
(* with a positive denominator; <<1, 0>> and <<-1, 0>> are float("inf")    *)
(* and float("-inf").                                                      *)
(***************************************************************************)
EXTENDS Integers, Sequences, FiniteSets, TLC

VARIABLES
    item_repository,        \* DamageCalculator.item_repository is configured
    rune_repository,        \* DamageCalculator.rune_repository is configured
    pc,                     \* "pending": the call has not run, "done": it has
    call,                   \* the operation invoked and its arguments
    outcome,                \* [status, value]: the value returned or the error raised
    damage_totals,          \* the DamageComponents accumulator of the last evaluation
    spell_burst_available,  \* the spell_burst availability flags of the last burst walk
    rank_lookups,           \* the ranks _ability_damage was invoked with
    passive_log,            \* the passives that contributed damage, in order
    scores,                 \* find_best_builds: the recommendations before the slice
    evaluations,            \* number of damage evaluations the call performed
    first_call,             \* the first call made on this calculator and its outcome
    previous_call           \* the call made on this calculator before the current one

vars == <<item_repository, rune_repository, pc, call, outcome, damage_totals,
          spell_burst_available, rank_lookups, passive_log, scores,
          evaluations, first_call, previous_call>>

\* Python's None where a string or a result is expected
None == "None"
\* an optional argument: Nothing is None, Some(x) is the value x
Nothing == [none |-> TRUE]
Some(x) == [some |-> x]

\* a local variable: value is computed first, then Body is evaluated with it
Bind(value, Body(_)) == IF value = value THEN Body(value) ELSE Body(value)

(***************************************************************************)
(* Float arithmetic, exact.                                                *)
(***************************************************************************)
Abs(x) == IF x < 0 THEN -x ELSE x

RECURSIVE Gcd(_, _)
Gcd(a, b) == IF b = 0 THEN a ELSE Gcd(b, a % b)

\* the fraction n/d in lowest terms; a zero denominator is an infinity
Rat(n, d) ==
    IF d = 0 THEN <<n \div Abs(n), 0>>
    ELSE LET g == Gcd(Abs(n), Abs(d))
             s == IF d < 0 THEN -1 ELSE 1
         IN  <<s * (n \div g), s * (d \div g)>>

Num(n) == <<n, 1>>
Zero == <<0, 1>>
One == <<1, 1>>
Inf == <<1, 0>>
NegInf == <<-1, 0>>

IsInf(x) == x[2] = 0
Add(x, y) == Rat(x[1] * y[2] + y[1] * x[2], x[2] * y[2])
Sub(x, y) == Rat(x[1] * y[2] - y[1] * x[2], x[2] * y[2])
Mul(x, y) == Rat(x[1] * y[1], x[2] * y[2])
Div(x, y) == Rat(x[1] * y[2], x[2] * y[1])
Lt(x, y) ==
    IF IsInf(x) \/ IsInf(y)
    THEN (x = NegInf /\ y # NegInf) \/ (y = Inf /\ x # Inf)
    ELSE x[1] * y[2] < y[1] * x[2]
Le(x, y) == x = y \/ Lt(x, y)
Floor(x) == x[1] \div x[2]
\* int(x): truncation towards zero
Trunc(x) == IF x[1] >= 0 THEN x[1] \div x[2] ELSE -((-x[1]) \div x[2])

(***************************************************************************)
(* DamageComponents                                                        *)
(***************************************************************************)
DamageComponents(physical, magic, true) ==
    [physical |-> physical, magic |-> magic, true |-> true]

NoDamage == DamageComponents(Zero, Zero, Zero)

\* __iadd__
IAdd(self, other) ==
    DamageComponents(Add(self.physical, other.physical),
                     Add(self.magic, other.magic),
                     Add(self.true, other.true))

\* scaled
Scaled(self, factor) ==
    DamageComponents(Mul(self.physical, factor),
                     Mul(self.magic, factor),
                     Mul(self.true, factor))

\* _apply_resistance without the "2 -" of the negative branch
ApplyResistanceNoShred(amount, resistance) ==
    IF Le(amount, Zero) THEN Zero
    ELSE Mul(amount, Div(Num(100), Add(Num(100), IF Lt(resistance, Zero)
                                                   THEN Sub(Zero, resistance)
                                                   ELSE resistance)))

\* _apply_resistance without the amount <= 0 guard
ApplyResistanceNoClamp(amount, resistance) ==
    IF Le(Zero, resistance)
    THEN Mul(amount, Div(Num(100), Add(Num(100), resistance)))
    ELSE Mul(amount, Sub(Num(2), Div(Num(100), Sub(Num(100), resistance))))

ApplyResistance(amount, resistance) ==
    IF Le(amount, Zero) THEN Zero
    ELSE IF Le(Zero, resistance)
    THEN Mul(amount, Div(Num(100), Add(Num(100), resistance)))
    ELSE Mul(amount, Sub(Num(2), Div(Num(100), Sub(Num(100), resistance))))

ScaledTotal(self, armor, magic_resist) ==
    Add(Add(ApplyResistance(self.physical, armor),
            ApplyResistance(self.magic, magic_resist)),
        self.true)

(***************************************************************************)
(* Entities: champion.py, item.py, rune.py                                 *)
(***************************************************************************)
StatNames == <<"attack_damage", "ability_power", "attack_speed", "ability_haste">>
Stats == {StatNames[i] : i \in DOMAIN StatNames}

\* Mapping.get(key, default)
Get(mapping, key, default) ==
    IF key \in DOMAIN mapping THEN mapping[key] ELSE default

Ability(key, base_damage, scalings, cooldown, max_rank, rank_levels, damage_type) ==
    [key |-> key, base_damage |-> base_damage, scalings |-> scalings,
     cooldown |-> cooldown, max_rank |-> max_rank, rank_levels |-> rank_levels,
     damage_type |-> damage_type]

Min(a, b) == IF a <= b THEN a ELSE b
Max(a, b) == IF a >= b THEN a ELSE b

\* Ability.rank_at_level
RankAtLevel(ability, level) ==
    Min(Cardinality({i \in DOMAIN ability.rank_levels : level >= ability.rank_levels[i]}),
        ability.max_rank)

\* Ability.base_damage_at_rank
BaseDamageAtRank(ability, rank) ==
    IF rank <= 0 THEN Zero ELSE ability.base_damage[rank]

\* Ability.cooldown_at_rank
CooldownAtRank(ability, rank) ==
    IF rank <= 0 THEN Inf ELSE ability.cooldown[rank]

\* Champion.ability: abilities is an ordered mapping, kept as a sequence
ChampionAbility(champion, key) ==
    champion.abilities[CHOOSE i \in DOMAIN champion.abilities : champion.abilities[i].key = key]

\* Champion.ability_rank
AbilityRank(champion, key, level) == RankAtLevel(ChampionAbility(champion, key), level)

Growth(level) == Num(Max(level - 1, 0))

\* Champion.attack_damage_at
AttackDamageAt(champion, level) ==
    Add(Get(champion.base_stats, "attack_damage", Zero),
        Mul(Get(champion.base_stats, "attack_damage_per_level", Zero), Growth(level)))

\* Champion.ability_power_at
AbilityPowerAt(champion, level) ==
    Add(Get(champion.base_stats, "ability_power", Zero),
        Mul(Get(champion.base_stats, "ability_power_per_level", Zero), Growth(level)))

\* Champion.attack_speed_at
AttackSpeedAt(champion, level) ==
    Mul(Get(champion.base_stats, "attack_speed", Zero),
        Add(One, Mul(Get(champion.base_stats, "attack_speed_per_level", Zero), Growth(level))))

\* Champion.ability_haste_at
AbilityHasteAt(champion, level) ==
    Add(Get(champion.base_stats, "ability_haste", Zero),
        Mul(Get(champion.base_stats, "ability_haste_per_level", Zero), Growth(level)))

ItemPassive(type, values) == [type |-> type, values |-> values]

\* Item and Rune have the same shape
Entity(id, name, stats, passives) ==
    [id |-> id, name |-> name, stats |-> stats, passives |-> passives]

(***************************************************************************)
(* The dataset the calls are drawn over.                                   *)
(***************************************************************************)
Champions ==
    [ahri |->
        [id |-> "ahri",
         base_stats |-> [attack_damage |-> Num(50), attack_damage_per_level |-> Num(4),
                         attack_speed |-> Rat(1, 2), attack_speed_per_level |-> Rat(1, 10)],
         abilities |-> <<
            Ability("Q", <<Num(40), Num(60)>>, [ability_power |-> Rat(1, 2)],
                    <<Num(4), Num(3)>>, 2, <<1, 2>>, "magic"),
            Ability("W", <<Num(30)>>, [attack_damage |-> Rat(1, 2)],
                    <<Num(2)>>, 1, <<3>>, "physical"),
            Ability("E", <<Num(20)>>, [ability_power |-> Rat(1, 5)],
                    <<Inf>>, 1, <<1>>, "Magic"),
            Ability("R", <<Num(100)>>, [ability_power |-> Rat(1, 4)],
                    <<Zero>>, 1, <<2>>, "true") >>,
         combo_sequence |-> <<"Q", "E", "AA", "W">>]]

Items ==
    [ludens |->
        Entity("ludens", "Luden's Tempest",
               [ability_power |-> Num(40), ability_haste |-> Num(100)],
               <<ItemPassive("spell_burst",
                   [damage |-> Num(50), scaling |-> [ability_power |-> Rat(1, 10)],
                    cooldown |-> Num(2)])>>),
     rabadon |->
        Entity("rabadon", "Rabadon's Deathcap",
               [ability_power |-> Num(60)],
               <<ItemPassive("stat_multiplier",
                   [stat |-> "ability_power", multiplier |-> Rat(1, 2)])>>),
     liandry |->
        Entity("liandry", "Liandry's Anguish",
               [ability_power |-> Num(20)],
               <<ItemPassive("dot_percent_max_health", [percent |-> Rat(1, 100)]),
                 ItemPassive("on_hit_magic_damage",
                   [base_damage |-> Num(10), scaling |-> [ability_power |-> Rat(1, 10)]])>>)]

Runes ==
    [electrocute |->
        Entity("domination_electrocute", "Domination - Electrocute",
               [attack_damage |-> Num(10)],
               <<ItemPassive("spell_burst",
                   [damage |-> Num(30), scaling |-> [attack_damage |-> Rat(1, 10)],
                    damage_type |-> "physical"])>>),
     comet |->
        Entity("sorcery_arcane_comet", "Sorcery - Arcane Comet",
               [ability_power |-> Num(10)],
               <<ItemPassive("stat_multiplier",
                   [stat |-> "attack_damage", multiplier |-> Rat(1, 10)])>>)]

(***************************************************************************)
(* References to entities: an entity object, or an identifier that a       *)
(* repository resolves (case-insensitively, by key or by display name).    *)
(***************************************************************************)
EntityRef(key) == [kind |-> "entity", key |-> key]
IdRef(identifier) == [kind |-> "identifier", key |-> identifier]

\* str.lower on the strings the model uses
Lower(s) ==
    CASE s = "Luden's Tempest" -> "luden's tempest"
      [] s = "Rabadon's Deathcap" -> "rabadon's deathcap"
      [] s = "Liandry's Anguish" -> "liandry's anguish"
      [] s = "Domination - Electrocute" -> "domination - electrocute"
      [] s = "Sorcery - Arcane Comet" -> "sorcery - arcane comet"
      [] s = "LUDENS" -> "ludens"
      [] s = "Magic" -> "magic"
      [] OTHER -> s

\* str.upper on the action tokens
Upper(s) == IF s \in {"aa", "Aa", "aA"} THEN "AA" ELSE s

Ok(value) == [status |-> "ok", value |-> value]
Raise(error) == [status |-> error, value |-> None]

\* ItemRepository.get / RuneRepository.get
RepositoryGet(entities, identifier) ==
    LET key == Lower(identifier)
    IN  IF key \in DOMAIN entities THEN Ok(entities[key])
        ELSE IF \E k \in DOMAIN entities : Lower(entities[k].name) = key
        THEN Ok(entities[CHOOSE k \in DOMAIN entities : Lower(entities[k].name) = key])
        ELSE Raise("KeyError")

\* _ensure_item without the repository check
EnsureItemUnchecked(item) ==
    IF item.kind = "entity" THEN Ok(Items[item.key])
    ELSE RepositoryGet(Items, item.key)

\* _ensure_item
EnsureItem(item) ==
    IF item.kind = "entity" THEN Ok(Items[item.key])
    ELSE IF ~item_repository THEN Raise("MissingItemRepository")
    ELSE RepositoryGet(Items, item.key)

\* _ensure_rune
EnsureRune(rune) ==
    IF rune.kind = "entity" THEN Ok(Runes[rune.key])
    ELSE IF ~rune_repository THEN Raise("MissingRuneRepository")
    ELSE RepositoryGet(Runes, rune.key)

\* _ensure_items: the list comprehension stops at the first error
RECURSIVE EnsureItemsFrom(_, _, _)
EnsureItemsFrom(items, i, acc) ==
    IF i > Len(items) THEN Ok(acc)
    ELSE LET r == EnsureItem(items[i])
         IN  IF r.status # "ok" THEN r
             ELSE EnsureItemsFrom(items, i + 1, Append(acc, r.value))

EnsureItems(items) == EnsureItemsFrom(items, 1, <<>>)

\* _ensure_runes
RECURSIVE EnsureRunesFrom(_, _, _)
EnsureRunesFrom(runes, i, acc) ==
    IF i > Len(runes) THEN Ok(acc)
    ELSE LET r == EnsureRune(runes[i])
         IN  IF r.status # "ok" THEN r
             ELSE EnsureRunesFrom(runes, i + 1, Append(acc, r.value))

EnsureRunes(runes) == EnsureRunesFrom(runes, 1, <<>>)

(***************************************************************************)
(* _aggregate_stats                                                        *)
(***************************************************************************)
\* sum(stats.get(stat, 0.0) * ratio for stat, ratio in scaling.items()), over the
\* keys of scaling that are left
RECURSIVE ScalingSumOver(_, _, _)
ScalingSumOver(stats, scaling, keys) ==
    IF keys = {} THEN Zero
    ELSE LET stat == CHOOSE k \in keys : TRUE
         IN  Add(Mul(Get(stats, stat, Zero), scaling[stat]),
                 ScalingSumOver(stats, scaling, keys \ {stat}))

ScalingSum(stats, scaling) == ScalingSumOver(stats, scaling, DOMAIN scaling)

LevelStats(champion, level) ==
    [s \in Stats |->
        CASE s = "attack_damage" -> AttackDamageAt(champion, level)
          [] s = "ability_power" -> AbilityPowerAt(champion, level)
          [] s = "attack_speed" -> AttackSpeedAt(champion, level)
          [] s = "ability_haste" -> AbilityHasteAt(champion, level)]

\* stats[stat] = stats.get(stat, 0.0) + value, for every stat of one source
AddSourceStats(stats, source) ==
    [s \in Stats |-> IF s \in DOMAIN source.stats
                     THEN Add(stats[s], source.stats[s]) ELSE stats[s]]

RECURSIVE AddAllStats(_, _, _)
AddAllStats(stats, sources, i) ==
    IF i > Len(sources) THEN stats
    ELSE AddAllStats(AddSourceStats(stats, sources[i]), sources, i + 1)

\* one stat_multiplier passive: stats[stat] = stats.get(stat, 0.0) * (1 + multiplier)
ApplyMultiplier(stats, passive) ==
    IF passive.type = "stat_multiplier" /\ Get(passive.values, "stat", None) \in Stats
    THEN [stats EXCEPT ![passive.values.stat] =
              Mul(@, Add(One, Get(passive.values, "multiplier", Zero)))]
    ELSE stats

RECURSIVE ApplyPassiveMultipliers(_, _, _)
ApplyPassiveMultipliers(stats, passives, j) ==
    IF j > Len(passives) THEN stats
    ELSE ApplyPassiveMultipliers(ApplyMultiplier(stats, passives[j]), passives, j + 1)

RECURSIVE ApplyAllMultipliers(_, _, _)
ApplyAllMultipliers(stats, sources, i) ==
    IF i > Len(sources) THEN stats
    ELSE ApplyAllMultipliers(ApplyPassiveMultipliers(stats, sources[i].passives, 1),
                             sources, i + 1)

\* an aggregation in one pass: the multipliers of a source are applied as soon as its
\* stats are added, before the stats of the sources after it
RECURSIVE OnePassFrom(_, _, _)
OnePassFrom(stats, sources, i) ==
    IF i > Len(sources) THEN stats
    ELSE OnePassFrom(ApplyPassiveMultipliers(AddSourceStats(stats, sources[i]),
                                             sources[i].passives, 1),
                     sources, i + 1)

AggregateStatsOnePass(champion, level, items, runes) ==
    OnePassFrom(LevelStats(champion, level), items \o runes, 1)

\* _aggregate_stats
AggregateStats(champion, level, items, runes) ==
    ApplyAllMultipliers(AddAllStats(LevelStats(champion, level), items \o runes, 1),
                        items \o runes, 1)

(***************************************************************************)
(* _collect_passives: (key, passive) pairs, items first, then runes; the   *)
(* key "origin:id:index" is kept as the triple <<origin, id, index>>.      *)
(***************************************************************************)
SourcePassives(origin, source) ==
    [j \in 1..Len(source.passives) |->
        [key |-> <<origin, source.id, j - 1>>, passive |-> source.passives[j]]]

RECURSIVE CollectFrom(_, _, _)
CollectFrom(origin, sources, i) ==
    IF i > Len(sources) THEN <<>>
    ELSE SourcePassives(origin, sources[i]) \o CollectFrom(origin, sources, i + 1)

CollectPassives(items, runes) ==
    CollectFrom("item", items, 1) \o CollectFrom("rune", runes, 1)

(***************************************************************************)
(* Damage formulas                                                         *)
(***************************************************************************)
\* _ability_damage
AbilityDamage(ability, stats, rank) ==
    LET total == Add(BaseDamageAtRank(ability, rank), ScalingSum(stats, ability.scalings))
        damage_type == Lower(ability.damage_type)
    IN  IF damage_type = "physical" THEN DamageComponents(total, Zero, Zero)
        ELSE IF damage_type = "true" THEN DamageComponents(Zero, Zero, total)
        ELSE DamageComponents(Zero, total, Zero)

\* _components_for_damage
ComponentsForDamage(amount, damage_type) ==
    IF Le(amount, Zero) THEN NoDamage
    ELSE IF Lower(damage_type) = "physical" THEN DamageComponents(amount, Zero, Zero)
    ELSE IF Lower(damage_type) = "true" THEN DamageComponents(Zero, Zero, amount)
    ELSE DamageComponents(Zero, amount, Zero)

\* passive.type.startswith("on_hit")
IsOnHit(type) ==
    type \in {"on_hit", "on_hit_magic_damage", "on_hit_true_damage", "on_hit_physical_damage"}

\* the damage type of an on-hit passive: values.get("damage_type") or by its type name
OnHitDamageType(passive) ==
    IF Get(passive.values, "damage_type", None) \notin {None, ""}
    THEN passive.values.damage_type
    ELSE CASE passive.type = "on_hit_true_damage" -> "true"
           [] passive.type = "on_hit_physical_damage" -> "physical"
           [] OTHER -> "magic"

\* the contribution of one passive to one auto attack
OnHitDamage(passive, stats) ==
    IF ~IsOnHit(passive.type) THEN NoDamage
    ELSE LET extra == Add(Get(passive.values, "base_damage", Zero),
                          ScalingSum(stats, Get(passive.values, "scaling", <<>>)))
             damage_type == OnHitDamageType(passive)
         IN  IF damage_type = "physical" THEN DamageComponents(extra, Zero, Zero)
             ELSE IF damage_type = "true" THEN DamageComponents(Zero, Zero, extra)
             ELSE DamageComponents(Zero, extra, Zero)

RECURSIVE OnHitFrom(_, _, _)
OnHitFrom(stats, passives, j) ==
    IF j > Len(passives) THEN NoDamage
    ELSE IAdd(OnHitDamage(passives[j].passive, stats), OnHitFrom(stats, passives, j + 1))

\* _auto_attack_damage
AutoAttackDamage(stats, passives) ==
    IAdd(DamageComponents(stats["attack_damage"], Zero, Zero), OnHitFrom(stats, passives, 1))

\* _passive_spell_burst_damage
PassiveSpellBurstDamage(passive, stats) ==
    Add(Get(passive.values, "damage", Zero),
        ScalingSum(stats, Get(passive.values, "scaling", <<>>)))

\* the per-call availability map that leaks the flags of the previous walk
StaleSpellBurstAvailable(passive_sources) ==
    [k \in {passive_sources[j].key : j \in
                {i \in DOMAIN passive_sources : passive_sources[i].passive.type = "spell_burst"}}
        |-> Get(spell_burst_available, k, TRUE)]

\* calculate_burst_combo: spell_burst_available = {key: True for ... if spell_burst}
SpellBurstAvailable(passive_sources) ==
    [k \in {passive_sources[j].key : j \in
                {i \in DOMAIN passive_sources : passive_sources[i].passive.type = "spell_burst"}}
        |-> TRUE]

\* the consumption of a spell_burst flag that leaves the flag set
ConsumeNothing(availability, key) == availability

\* _burst_passive_damage: availability[key] = False
Consume(availability, key) == [availability EXCEPT ![key] = FALSE]

\* the amount of a dot_percent_max_health passive without the target's health
DotPercentOnly(passive, target_health) == Get(passive.values, "percent", Zero)

\* _burst_passive_damage: passive.values.get("percent", 0.0) * target_health
DotPercentAmount(passive, target_health) ==
    Mul(Get(passive.values, "percent", Zero), target_health)

\* _burst_passive_damage: one pass of the loop body, for passive st.j;
\* st = [j, bonus, available, log]
BurstPassiveStep(passives, stats, target_health, token, st) ==
    LET key == passives[st.j].key
        passive == passives[st.j].passive
        damage_type == Get(passive.values, "damage_type", "magic")
    IN  IF passive.type = "spell_burst" /\ Get(st.available, key, FALSE)
        THEN LET amount == PassiveSpellBurstDamage(passive, stats)
             IN  [j |-> st.j + 1,
                  bonus |-> IAdd(st.bonus, ComponentsForDamage(amount, damage_type)),
                  available |-> Consume(st.available, key),
                  log |-> Append(st.log, [token |-> token, key |-> key,
                                          type |-> passive.type, amount |-> amount])]
        ELSE IF passive.type = "dot_percent_max_health"
        THEN LET amount == DotPercentAmount(passive, target_health)
             IN  [j |-> st.j + 1,
                  bonus |-> IAdd(st.bonus, ComponentsForDamage(amount, damage_type)),
                  available |-> st.available,
                  log |-> Append(st.log, [token |-> token, key |-> key,
                                          type |-> passive.type, amount |-> amount])]
        ELSE [st EXCEPT !.j = @ + 1]

\* _burst_passive_damage: the loop over the passives, from passive st.j on
RECURSIVE BurstPassivesFrom(_, _, _, _, _)
BurstPassivesFrom(passives, stats, target_health, token, st) ==
    IF st.j > Len(passives) THEN st
    ELSE BurstPassivesFrom(passives, stats, target_health, token,
                           BurstPassiveStep(passives, stats, target_health, token, st))

BurstPassiveDamage(passives, stats, target_health, token, availability) ==
    BurstPassivesFrom(passives, stats, target_health, token,
                      [j |-> 1, bonus |-> NoDamage, available |-> availability,
                       log |-> <<>>])

\* the rank guard of the combo walk with < in place of <=
RankLockedStrict(rank) == rank < 0

\* calculate_burst_combo / calculate_sustained_dps: if rank <= 0: continue
RankLocked(rank) == rank <= 0

\* calculate_burst_combo: one pass of the loop body, for token frame.i of the
\* sequence; frame = [i, totals, available, lookups, log]
BurstStep(champion, level, sequence, stats, passives, target_health, frame) ==
    LET token == sequence[frame.i]
    IN  IF Upper(token) = "AA"
        THEN [frame EXCEPT !.i = @ + 1,
                           !.totals = IAdd(@, AutoAttackDamage(stats, passives))]
        ELSE
          LET ability == ChampionAbility(champion, token)
              rank == AbilityRank(champion, token, level)
          IN  IF RankLocked(rank) THEN [frame EXCEPT !.i = @ + 1]
              ELSE
                Bind(AbilityDamage(ability, stats, rank), LAMBDA damage :
                Bind(BurstPassiveDamage(passives, stats, target_health, frame.i,
                                        frame.available), LAMBDA bonus :
                  [i |-> frame.i + 1,
                   totals |-> IAdd(IAdd(frame.totals, damage), bonus.bonus),
                   available |-> bonus.available,
                   lookups |-> Append(frame.lookups, [key |-> ability.key, rank |-> rank]),
                   log |-> frame.log \o bonus.log]))

\* calculate_burst_combo: the loop over the sequence, from token frame.i on
RECURSIVE BurstWalk(_, _, _, _, _, _, _)
BurstWalk(champion, level, sequence, stats, passives, target_health, frame) ==
    IF frame.i > Len(sequence) THEN frame
    ELSE BurstWalk(champion, level, sequence, stats, passives, target_health,
                   BurstStep(champion, level, sequence, stats, passives, target_health,
                             frame))

(***************************************************************************)
(* Cooldown / cast model                                                   *)
(***************************************************************************)
\* _apply_ability_haste that leaves every cooldown as it is
ApplyAbilityHasteIgnored(base_cooldown, ability_haste) == base_cooldown

\* _apply_ability_haste
ApplyAbilityHaste(base_cooldown, ability_haste) ==
    IF Le(ability_haste, Zero) THEN base_cooldown
    ELSE Div(base_cooldown, Add(One, Div(ability_haste, Num(100))))

\* the 1e-9 of _casts_in_duration is 1 / EpsilonInverse
EpsilonInverse == 1000000000

\* 1e-9 <= x, for a fraction x in lowest terms whose parts are below 2^31
AtLeastEpsilon(x) == x[1] >= 3 \/ (x[1] >= 1 /\ x[1] * EpsilonInverse >= x[2])

\* int(math.floor((duration - 1e-9) / cooldown)) for 1e-9 <= cooldown, 0 < duration.
\* (duration - 1e-9) / cooldown is q - 1e-9 / cooldown with q = duration / cooldown;
\* its floor is the floor of q when the fractional part of q is at least
\* 1e-9 / cooldown, and one less when it is not
FloorBelow(duration, cooldown) ==
    LET q == Div(duration, cooldown)
        fraction == Rat(q[1] % q[2], q[2])
    IN  IF AtLeastEpsilon(Mul(fraction, cooldown)) THEN Floor(q) ELSE Floor(q) - 1

\* _casts_in_duration without the epsilon: floor(duration / cooldown) + 1
CastsInDurationNoEpsilon(cooldown, duration) ==
    IF Le(cooldown, Zero)
    THEN IF Le(duration, Zero) THEN 0
         ELSE Max(1, Trunc(Mul(duration, Num(10))))
    ELSE IF IsInf(cooldown) THEN 0
    ELSE IF Le(duration, Zero) THEN 0
    ELSE Max(1, Floor(Div(duration, cooldown)) + 1)

\* _casts_in_duration
CastsInDuration(cooldown, duration) ==
    IF Le(cooldown, Zero)
    THEN IF Le(duration, Zero) THEN 0
         ELSE Max(1, Trunc(Mul(duration, Num(10))))
    ELSE IF IsInf(cooldown) THEN 0
    ELSE IF Le(duration, Zero) THEN 0
    ELSE Max(1, FloorBelow(duration, cooldown) + 1)

(***************************************************************************)
(* calculate_burst_combo                                                   *)
(***************************************************************************)
\* the truth value of an optional sequence: None and empty are false
Truthy(sequence) == sequence # Nothing /\ sequence.some # <<>>

\* x if x is not None else default
OrDefault(x, default) == IF x # Nothing THEN x.some ELSE default

default_target_health == 2000
default_target_armor == 0
default_target_magic_resist == 0

\* sequence = combo or champion.combo_sequence or []
ComboSequence(combo, champion) ==
    IF Truthy(combo) THEN combo.some
    ELSE IF champion.combo_sequence # <<>> THEN champion.combo_sequence
    ELSE <<>>

Failed(error) ==
    [status |-> error, value |-> None, totals |-> NoDamage, available |-> <<>>,
     lookups |-> <<>>, log |-> <<>>]

\* calculate_burst_combo once the items and runes are entity objects
BurstOfEntities(champion, level, item_objects, rune_objects, target_health, target_armor, target_magic_resist, combo) ==
    LET target == OrDefault(target_health, Num(default_target_health))
        armor == OrDefault(target_armor, Num(default_target_armor))
        magic_resist == OrDefault(target_magic_resist, Num(default_target_magic_resist))
        sequence == ComboSequence(combo, champion)
    IN  Bind(AggregateStats(champion, level, item_objects, rune_objects), LAMBDA stats :
        Bind(CollectPassives(item_objects, rune_objects), LAMBDA passive_sources :
        Bind(BurstWalk(champion, level, sequence, stats, passive_sources, target,
                       [i |-> 1, totals |-> NoDamage,
                        available |-> SpellBurstAvailable(passive_sources),
                        lookups |-> <<>>, log |-> <<>>]), LAMBDA frame :
          [status |-> "ok", value |-> ScaledTotal(frame.totals, armor, magic_resist),
           totals |-> frame.totals, available |-> frame.available,
           lookups |-> frame.lookups, log |-> frame.log])))

BurstCombo(champion, level, items, runes, target_health, target_armor, target_magic_resist, combo) ==
    LET item_objects == EnsureItems(items)
        rune_objects == EnsureRunes(IF Truthy(runes) THEN runes.some ELSE <<>>)
    IN  IF item_objects.status # "ok" THEN Failed(item_objects.status)
        ELSE IF rune_objects.status # "ok" THEN Failed(rune_objects.status)
        ELSE BurstOfEntities(champion, level, item_objects.value, rune_objects.value,
                             target_health, target_armor, target_magic_resist, combo)

(***************************************************************************)
(* calculate_sustained_dps                                                 *)
(***************************************************************************)
\* the proc count without the passive's own cooldown: one proc per cast
SpellBurstProcsUncapped(passive, casts, duration) == casts

\* _sustained_passive_damage: the procs of one spell_burst passive; a passive without
\* a cooldown gets the duration as its cooldown
SpellBurstProcs(passive, casts, duration) ==
    LET cooldown == Get(passive.values, "cooldown", duration)
    IN  IF Lt(Zero, cooldown)
        THEN Min(casts, CastsInDuration(cooldown, duration))
        ELSE casts

\* _sustained_passive_damage: one pass of the loop body, for passive st.j;
\* st = [j, bonus, log]
SustainedPassiveStep(passives, stats, target_health, ability, casts, duration, st) ==
    LET key == passives[st.j].key
        passive == passives[st.j].passive
        damage_type == Get(passive.values, "damage_type", "magic")
    IN  IF passive.type = "spell_burst"
        THEN LET procs == SpellBurstProcs(passive, casts, duration)
                 amount == Mul(Num(procs), PassiveSpellBurstDamage(passive, stats))
             IN  [j |-> st.j + 1,
                  bonus |-> IAdd(st.bonus, ComponentsForDamage(amount, damage_type)),
                  log |-> Append(st.log, [ability |-> ability.key, key |-> key,
                                          type |-> passive.type, procs |-> procs,
                                          amount |-> amount])]
        ELSE IF passive.type = "dot_percent_max_health"
        THEN LET amount == Mul(Mul(Num(casts), Get(passive.values, "percent", Zero)),
                               target_health)
             IN  [j |-> st.j + 1,
                  bonus |-> IAdd(st.bonus, ComponentsForDamage(amount, damage_type)),
                  log |-> Append(st.log, [ability |-> ability.key, key |-> key,
                                          type |-> passive.type, procs |-> casts,
                                          amount |-> amount])]
        ELSE [st EXCEPT !.j = @ + 1]

\* _sustained_passive_damage: the loop over the passives, from passive st.j on
RECURSIVE SustainedPassivesFrom(_, _, _, _, _, _, _)
SustainedPassivesFrom(passives, stats, target_health, ability, casts, duration, st) ==
    IF st.j > Len(passives) THEN st
    ELSE SustainedPassivesFrom(passives, stats, target_health, ability, casts, duration,
           SustainedPassiveStep(passives, stats, target_health, ability, casts, duration,
                                st))

SustainedPassiveDamage(passives, stats, target_health, ability, casts, duration) ==
    SustainedPassivesFrom(passives, stats, target_health, ability, casts, duration,
                          [j |-> 1, bonus |-> NoDamage, log |-> <<>>])

\* _sustained_auto_damage
SustainedAutoDamage(stats, passives, duration) ==
    IF Le(stats["attack_speed"], Zero) \/ Le(duration, Zero) THEN NoDamage
    ELSE Scaled(AutoAttackDamage(stats, passives), Mul(stats["attack_speed"], duration))

\* the loop body with the spell_burst passives spent by the first ability that is
\* cast: one proc limit for the whole window
SustainedStepOncePerWindow(champion, level, stats, passives, target_health, duration, frame) ==
    LET ability == champion.abilities[frame.i]
        rank == AbilityRank(champion, ability.key, level)
        base_cooldown == CooldownAtRank(ability, rank)
        effective_cooldown == ApplyAbilityHaste(base_cooldown, stats["ability_haste"])
        casts == CastsInDuration(effective_cooldown, duration)
        skip == [frame EXCEPT !.i = @ + 1]
        left == IF frame.lookups = <<>> THEN passives
                ELSE SelectSeq(passives, LAMBDA entry : entry.passive.type # "spell_burst")
    IN  IF RankLocked(rank) THEN skip
        ELSE IF IsInf(base_cooldown) THEN skip
        ELSE IF casts <= 0 THEN skip
        ELSE
          Bind(AbilityDamage(ability, stats, rank), LAMBDA damage :
          Bind(SustainedPassiveDamage(left, stats, target_health, ability, casts,
                                      duration), LAMBDA bonus :
            [i |-> frame.i + 1,
             totals |-> IAdd(IAdd(frame.totals, Scaled(damage, Num(casts))), bonus.bonus),
             lookups |-> Append(frame.lookups, [key |-> ability.key, rank |-> rank]),
             log |-> frame.log \o bonus.log]))

\* calculate_sustained_dps: one pass of the loop body, for ability frame.i;
\* frame = [i, totals, lookups, log]
SustainedStep(champion, level, stats, passives, target_health, duration, frame) ==
    LET ability == champion.abilities[frame.i]
        rank == AbilityRank(champion, ability.key, level)
        base_cooldown == CooldownAtRank(ability, rank)
        effective_cooldown == ApplyAbilityHaste(base_cooldown, stats["ability_haste"])
        casts == CastsInDuration(effective_cooldown, duration)
        skip == [frame EXCEPT !.i = @ + 1]
    IN  IF RankLocked(rank) THEN skip
        ELSE IF IsInf(base_cooldown) THEN skip
        ELSE IF casts <= 0 THEN skip
        ELSE
          Bind(AbilityDamage(ability, stats, rank), LAMBDA damage :
          Bind(SustainedPassiveDamage(passives, stats, target_health, ability, casts,
                                      duration), LAMBDA bonus :
            [i |-> frame.i + 1,
             totals |-> IAdd(IAdd(frame.totals, Scaled(damage, Num(casts))), bonus.bonus),
             lookups |-> Append(frame.lookups, [key |-> ability.key, rank |-> rank]),
             log |-> frame.log \o bonus.log]))

\* calculate_sustained_dps: the loop over champion.abilities, from ability frame.i on
RECURSIVE SustainedWalk(_, _, _, _, _, _, _)
SustainedWalk(champion, level, stats, passives, target_health, duration, frame) ==
    IF frame.i > Len(champion.abilities) THEN frame
    ELSE SustainedWalk(champion, level, stats, passives, target_health, duration,
           SustainedStep(champion, level, stats, passives, target_health, duration, frame))

\* the final division without the duration > 0 guard: a zero duration divides by zero
DpsUnguarded(total_damage, duration) ==
    IF duration = Zero THEN Raise("ZeroDivisionError")
    ELSE Ok(Div(total_damage, duration))

\* return total_damage / duration if duration > 0 else 0.0
DpsOf(total_damage, duration) ==
    IF Lt(Zero, duration) THEN Ok(Div(total_damage, duration)) ELSE Ok(Zero)

\* calculate_sustained_dps once the items and runes are entity objects
SustainedOfEntities(champion, level, item_objects, rune_objects, duration, target_health, target_armor, target_magic_resist) ==
    LET target == OrDefault(target_health, Num(default_target_health))
        armor == OrDefault(target_armor, Num(default_target_armor))
        magic_resist == OrDefault(target_magic_resist, Num(default_target_magic_resist))
    IN  Bind(AggregateStats(champion, level, item_objects, rune_objects), LAMBDA stats :
        Bind(CollectPassives(item_objects, rune_objects), LAMBDA passive_sources :
        Bind(SustainedWalk(champion, level, stats, passive_sources, target, duration,
                           [i |-> 1, totals |-> NoDamage, lookups |-> <<>>, log |-> <<>>]),
             LAMBDA frame :
        Bind(IAdd(frame.totals, SustainedAutoDamage(stats, passive_sources, duration)),
             LAMBDA totals :
        Bind(DpsOf(ScaledTotal(totals, armor, magic_resist), duration), LAMBDA dps :
          [status |-> dps.status, value |-> dps.value, totals |-> totals,
           available |-> <<>>, lookups |-> frame.lookups, log |-> frame.log])))))

SustainedDps(champion, level, items, runes, duration, target_health, target_armor, target_magic_resist) ==
    LET item_objects == EnsureItems(items)
        rune_objects == EnsureRunes(IF Truthy(runes) THEN runes.some ELSE <<>>)
    IN  IF item_objects.status # "ok" THEN Failed(item_objects.status)
        ELSE IF rune_objects.status # "ok" THEN Failed(rune_objects.status)
        ELSE SustainedOfEntities(champion, level, item_objects.value, rune_objects.value,
                                 duration, target_health, target_armor, target_magic_resist)

(***************************************************************************)
(* find_best_builds                                                        *)
(***************************************************************************)
\* RuneRepository.all(): the values in insertion order
RuneRepositoryAll == <<Runes.electrocute, Runes.comet>>

\* _prepare_rune_pool: the candidate runes, or the single no-rune candidate
PrepareRunePool(rune_pool) ==
    LET runes == IF rune_pool = Nothing
                 THEN Ok(IF rune_repository THEN RuneRepositoryAll ELSE <<>>)
                 ELSE EnsureRunes(rune_pool.some)
    IN  IF runes.status # "ok" THEN runes
        ELSE IF runes.value = <<>> THEN Ok(<<Nothing>>)
        ELSE runes

\* itertools.combinations(range(start, n + 1), r), in its lexicographic order
RECURSIVE CombinationsFrom(_, _, _)
CombinationsFrom(start, n, r) ==
    IF r = 0 THEN << <<>> >>
    ELSE IF start > n THEN <<>>
    ELSE LET rest == CombinationsFrom(start + 1, n, r - 1)
         IN  [k \in 1..Len(rest) |-> <<start>> \o rest[k]]
             \o CombinationsFrom(start + 1, n, r)

\* itertools.combinations(pool_items, build_size): positions, not values, are combined
Combinations(pool_items, build_size) ==
    LET indices == CombinationsFrom(1, Len(pool_items), build_size)
    IN  [k \in 1..Len(indices) |->
            [j \in 1..Len(indices[k]) |-> pool_items[indices[k][j]]]]

\* the metric of one item combination with one candidate rune
Score(champion, level, combo_items, rune, metric, duration, target_health, target_armor, target_magic_resist) ==
    LET rune_list == IF rune # Nothing THEN <<rune>> ELSE <<>>
    IN  IF metric = "burst"
        THEN BurstOfEntities(champion, level, combo_items, rune_list, target_health,
                             target_armor, target_magic_resist, Nothing)
        ELSE IF metric = "dps"
        THEN SustainedOfEntities(champion, level, combo_items, rune_list, duration,
                                 target_health, target_armor, target_magic_resist)
        ELSE Failed("UnsupportedMetric")

\* the update test of the rune loop that lets every candidate replace the best
BetterAlways(score, best_value) == TRUE

\* the update test of the rune loop with >= in place of >
BetterOrEqual(score, best_value) == Le(best_value, score)

\* if score > best_value
Better(score, best_value) == Lt(best_value, score)

\* the loop over the candidate runes: one pass of the loop body, for rune best.k;
\* best = [k, status, best_value, best_rune_name, evaluations]
BestRuneStep(champion, level, combo_items, runes, metric, duration, target_health, target_armor, target_magic_resist, best) ==
    LET rune == runes[best.k]
    IN  Bind(Score(champion, level, combo_items, rune, metric, duration,
                   target_health, target_armor, target_magic_resist), LAMBDA score :
          IF score.status # "ok" THEN [best EXCEPT !.status = score.status]
          ELSE IF Better(score.value, best.best_value)
          THEN [k |-> best.k + 1, status |-> "ok", best_value |-> score.value,
                best_rune_name |-> IF rune # Nothing THEN rune.name ELSE None,
                evaluations |-> best.evaluations + 1]
          ELSE [best EXCEPT !.k = @ + 1, !.evaluations = @ + 1])

\* the loop over the candidate runes, from rune best.k on; an error ends it
RECURSIVE BestRuneFrom(_, _, _, _, _, _, _, _, _, _)
BestRuneFrom(champion, level, combo_items, runes, metric, duration, target_health, target_armor, target_magic_resist, best) ==
    IF best.status # "ok" \/ best.k > Len(runes) THEN best
    ELSE BestRuneFrom(champion, level, combo_items, runes, metric, duration,
           target_health, target_armor, target_magic_resist,
           BestRuneStep(champion, level, combo_items, runes, metric, duration,
                        target_health, target_armor, target_magic_resist, best))

BuildRecommendation(items, rune, metric_value) ==
    [items |-> items, rune |-> rune, metric_value |-> metric_value]

\* the loop over the combinations: one pass of the loop body, for combination acc.c;
\* acc = [c, status, scores, evaluations]
ScoresStep(champion, level, combos, runes, metric, duration, target_health, target_armor, target_magic_resist, acc) ==
    LET combo_items == combos[acc.c]
        names == [j \in 1..Len(combo_items) |-> combo_items[j].name]
    IN  Bind(BestRuneFrom(champion, level, combo_items, runes, metric, duration,
                          target_health, target_armor, target_magic_resist,
                          [k |-> 1, status |-> "ok", best_value |-> NegInf,
                           best_rune_name |-> None, evaluations |-> 0]), LAMBDA best :
          IF best.status # "ok"
          THEN [acc EXCEPT !.status = best.status,
                           !.evaluations = @ + best.evaluations]
          ELSE [c |-> acc.c + 1, status |-> "ok",
                scores |-> IF Lt(NegInf, best.best_value)
                           THEN Append(acc.scores,
                                  BuildRecommendation(names, best.best_rune_name,
                                                      best.best_value))
                           ELSE acc.scores,
                evaluations |-> acc.evaluations + best.evaluations])

\* the loop over the combinations, from combination acc.c on; an error ends it
RECURSIVE ScoresFrom(_, _, _, _, _, _, _, _, _, _)
ScoresFrom(champion, level, combos, runes, metric, duration, target_health, target_armor, target_magic_resist, acc) ==
    IF acc.status # "ok" \/ acc.c > Len(combos) THEN acc
    ELSE ScoresFrom(champion, level, combos, runes, metric, duration, target_health,
           target_armor, target_magic_resist,
           ScoresStep(champion, level, combos, runes, metric, duration, target_health,
                      target_armor, target_magic_resist, acc))

\* list.sort(key=metric_value, reverse=True): stable, equal keys keep their order
Insert(sorted, entry) ==
    LET before == Cardinality({i \in DOMAIN sorted :
                                  Le(entry.metric_value, sorted[i].metric_value)})
    IN  SubSeq(sorted, 1, before) \o <<entry>> \o SubSeq(sorted, before + 1, Len(sorted))

RECURSIVE SortFrom(_, _, _)
SortFrom(entries, i, sorted) ==
    IF i > Len(entries) THEN sorted
    ELSE SortFrom(entries, i + 1, Insert(sorted, entries[i]))

SortDescending(entries) == SortFrom(entries, 1, <<>>)

\* scores[:top_n]: a negative top_n counts from the end
Slice(entries, top_n) ==
    IF top_n >= 0 THEN SubSeq(entries, 1, Min(top_n, Len(entries)))
    ELSE SubSeq(entries, 1, Max(Len(entries) + top_n, 0))

FindBestBuilds(champion, level, item_pool, build_size, metric, top_n, duration, target_health, target_armor, target_magic_resist, rune_pool) ==
    LET none == [status |-> "ok", value |-> None, scores |-> <<>>, evaluations |-> 0]
    IN  Bind(EnsureItems(item_pool), LAMBDA pool_items :
          IF pool_items.status # "ok" THEN [none EXCEPT !.status = pool_items.status]
          ELSE IF build_size < 0 THEN [none EXCEPT !.status = "ValueError"]
          ELSE
            Bind(PrepareRunePool(rune_pool), LAMBDA runes :
              IF runes.status # "ok" THEN [none EXCEPT !.status = runes.status]
              ELSE
                Bind(ScoresFrom(champion, level,
                                Combinations(pool_items.value, build_size), runes.value,
                                metric, duration, target_health, target_armor,
                                target_magic_resist,
                                [c |-> 1, status |-> "ok", scores |-> <<>>,
                                 evaluations |-> 0]), LAMBDA found :
                  IF found.status # "ok"
                  THEN [none EXCEPT !.status = found.status,
                                    !.evaluations = found.evaluations]
                  ELSE [status |-> "ok",
                        value |-> Slice(SortDescending(found.scores), top_n),
                        scores |-> found.scores,
                        evaluations |-> found.evaluations])))

(***************************************************************************)
(* The calls the specifications draw from.                                 *)
(***************************************************************************)
MaxItems == 2
MaxCombo == 2
MaxPool == 3
MaxTopN == 2

SeqsUpTo(S, n) == UNION {[1..k -> S] : k \in 0..n}

Levels == {0, 1, 2, 3}
ItemEntities == {EntityRef(k) : k \in DOMAIN Items}
RuneEntities == {EntityRef(k) : k \in DOMAIN Runes}
Tokens == {"Q", "W", "R", "AA"}
Targets ==
    {[health |-> Nothing, armor |-> Nothing, magic_resist |-> Nothing],
     [health |-> Some(Num(1000)), armor |-> Some(Num(100)),
      magic_resist |-> Some(Num(-50))]}
Durations == {Num(-1), Zero, Num(1), Rat(5, 2), Num(4)}
Metrics == {"burst", "dps", "damage"}

BurstCallsOver(itemRefs, runeLists) ==
    [op : {"calculate_burst_combo"}, champion : DOMAIN Champions, level : Levels,
     items : SeqsUpTo(itemRefs, MaxItems), runes : runeLists, target : Targets,
     combo : {Nothing} \cup {Some(c) : c \in SeqsUpTo(Tokens, MaxCombo)}]

DpsCallsOver(itemRefs, runeLists) ==
    [op : {"calculate_sustained_dps"}, champion : DOMAIN Champions, level : Levels,
     items : SeqsUpTo(itemRefs, MaxItems), runes : runeLists, target : Targets,
     duration : Durations]

FindCallsOver(itemRefs, runePools, buildSizes, topNs, metrics, durations) ==
    [op : {"find_best_builds"}, champion : DOMAIN Champions, level : {2},
     item_pool : SeqsUpTo(itemRefs, MaxPool), build_size : buildSizes,
     metric : metrics, top_n : topNs, duration : durations,
     target : {[health |-> Nothing, armor |-> Nothing, magic_resist |-> Nothing]},
     rune_pool : runePools]

EntityRuneLists == {Nothing} \cup {Some(<<r>>) : r \in RuneEntities}

EvaluatorCalls ==
    BurstCallsOver(ItemEntities, EntityRuneLists)
        \cup DpsCallsOver(ItemEntities, EntityRuneLists)

\* every metric over a window of 2.5, and "dps" over an empty window as well, where
\* every build and every rune scores 0
BuildCalls ==
    LET RunePools == {Nothing, Some(<<>>),
                      Some(<<EntityRef("comet"), EntityRef("electrocute")>>)}
    IN  FindCallsOver(ItemEntities, RunePools, -1..MaxPool, {-1, 1, MaxTopN}, Metrics,
                      {Rat(5, 2)})
            \cup
        FindCallsOver(ItemEntities, RunePools, -1..MaxPool, {-1, 1, MaxTopN}, {"dps"},
                      {Zero})

(***************************************************************************)
(* State machine                                                           *)
(***************************************************************************)
NoCall == [op |-> None]

InitWith(calls, itemRepositories, runeRepositories) ==
    /\ item_repository \in itemRepositories
    /\ rune_repository \in runeRepositories
    /\ pc = "pending"
    /\ call \in calls
    /\ outcome = [status |-> "pending", value |-> None]
    /\ damage_totals = NoDamage
    /\ spell_burst_available = <<>>
    /\ rank_lookups = <<>>
    /\ passive_log = <<>>
    /\ scores = <<>>
    /\ evaluations = 0
    /\ first_call = NoCall
    /\ previous_call = NoCall

Evaluated(frame) == IF frame.status \in {"ok", "ZeroDivisionError"} THEN 1 ELSE 0

Remember(frame) ==
    IF first_call = NoCall
    THEN [op |-> call.op, call |-> call, status |-> frame.status, value |-> frame.value]
    ELSE first_call

CalculateBurstCombo ==
    /\ pc = "pending"
    /\ call.op = "calculate_burst_combo"
    /\ \E frame \in {BurstCombo(Champions[call.champion], call.level, call.items,
                               call.runes, call.target.health, call.target.armor,
                               call.target.magic_resist, call.combo)} :
           /\ outcome' = [status |-> frame.status, value |-> frame.value]
           /\ damage_totals' = frame.totals
           /\ spell_burst_available' = frame.available
           /\ rank_lookups' = frame.lookups
           /\ passive_log' = frame.log
           /\ evaluations' = Evaluated(frame)
           /\ first_call' = Remember(frame)
    /\ pc' = "done"
    /\ scores' = <<>>
    /\ UNCHANGED <<item_repository, rune_repository, call, previous_call>>

CalculateSustainedDps ==
    /\ pc = "pending"
    /\ call.op = "calculate_sustained_dps"
    /\ \E frame \in {SustainedDps(Champions[call.champion], call.level, call.items,
                                 call.runes, call.duration, call.target.health,
                                 call.target.armor, call.target.magic_resist)} :
           /\ outcome' = [status |-> frame.status, value |-> frame.value]
           /\ damage_totals' = frame.totals
           /\ rank_lookups' = frame.lookups
           /\ passive_log' = frame.log
           /\ evaluations' = Evaluated(frame)
           /\ first_call' = Remember(frame)
    /\ pc' = "done"
    /\ scores' = <<>>
    /\ UNCHANGED <<item_repository, rune_repository, call, spell_burst_available,
                   previous_call>>

FindBestBuildsCall ==
    /\ pc = "pending"
    /\ call.op = "find_best_builds"
    /\ \E found \in {FindBestBuilds(Champions[call.champion], call.level,
                                      call.item_pool, call.build_size, call.metric,
                                      call.top_n, call.duration, call.target.health,
                                      call.target.armor, call.target.magic_resist,
                                      call.rune_pool)} :
           /\ outcome' = [status |-> found.status, value |-> found.value]
           /\ scores' = found.scores
           /\ evaluations' = found.evaluations
           /\ first_call' = Remember(found)
    /\ pc' = "done"
    /\ damage_totals' = NoDamage
    /\ rank_lookups' = <<>>
    /\ passive_log' = <<>>
    /\ UNCHANGED <<item_repository, rune_repository, call, spell_burst_available,
                   previous_call>>

\* the evaluator: calculate_burst_combo and calculate_sustained_dps on entity objects
Init == InitWith(EvaluatorCalls, {FALSE}, {FALSE})
Next == CalculateBurstCombo \/ CalculateSustainedDps
Spec == Init /\ [][Next]_vars

\* the build optimizer
InitBuilds == InitWith(BuildCalls, {FALSE}, {TRUE})
NextBuilds == FindBestBuildsCall
SpecBuilds == InitBuilds /\ [][NextBuilds]_vars

(***************************************************************************)
(* DamageComponents.scaled_total and _apply_resistance as operations       *)
(***************************************************************************)
MaxAmount == 2
MaxResistance == 3

Amounts == {Num(10 * k) : k \in -MaxAmount..MaxAmount} \cup {Rat(5, 2)}
Resistances == {Num(25 * k) : k \in -MaxResistance..MaxResistance} \cup {Rat(1, 2)}

MitigationCalls ==
    [op : {"scaled_total"}, physical : Amounts, magic : Amounts, true : Amounts,
     armor : {Num(25 * k) : k \in {-2, 0, 2}}, magic_resist : {Num(25 * k) : k \in {-2, 0, 2}}]
        \cup [op : {"_apply_resistance"}, amount : Amounts, resistance : Resistances]

ScaledTotalCall ==
    /\ pc = "pending"
    /\ call.op = "scaled_total"
    /\ damage_totals' = DamageComponents(call.physical, call.magic, call.true)
    /\ outcome' = Ok(ScaledTotal(damage_totals', call.armor, call.magic_resist))
    /\ pc' = "done"
    /\ first_call' = [op |-> call.op, call |-> call, status |-> "ok",
                      value |-> outcome'.value]
    /\ UNCHANGED <<item_repository, rune_repository, call, spell_burst_available,
                   rank_lookups, passive_log, scores, evaluations, previous_call>>

ApplyResistanceCall ==
    /\ pc = "pending"
    /\ call.op = "_apply_resistance"
    /\ outcome' = Ok(ApplyResistance(call.amount, call.resistance))
    /\ pc' = "done"
    /\ first_call' = [op |-> call.op, call |-> call, status |-> "ok",
                      value |-> outcome'.value]
    /\ UNCHANGED <<item_repository, rune_repository, call, damage_totals,
                   spell_burst_available, rank_lookups, passive_log, scores,
                   evaluations, previous_call>>

InitMitigation == InitWith(MitigationCalls, {FALSE}, {FALSE})
NextMitigation == ScaledTotalCall \/ ApplyResistanceCall
SpecMitigation == InitMitigation /\ [][NextMitigation]_vars

(***************************************************************************)
(* _aggregate_stats as an operation, on item and rune objects               *)
(***************************************************************************)
MaxSources == 2

\* an item with two multipliers, one of them on the stat Rabadon's multiplies
Amplifier ==
    Entity("amplifier", "Amplifier",
           [attack_damage |-> Num(20), attack_speed |-> Rat(1, 4)],
           <<ItemPassive("stat_multiplier",
               [stat |-> "ability_power", multiplier |-> Rat(1, 5)]),
             ItemPassive("stat_multiplier",
               [stat |-> "attack_speed", multiplier |-> Rat(1, 2)])>>)

AggregateCalls ==
    [op : {"_aggregate_stats"}, champion : DOMAIN Champions, level : Levels,
     items : SeqsUpTo({Items[k] : k \in DOMAIN Items} \cup {Amplifier}, MaxSources),
     runes : SeqsUpTo({Runes[k] : k \in DOMAIN Runes}, MaxSources)]

AggregateStatsCall ==
    /\ pc = "pending"
    /\ call.op = "_aggregate_stats"
    /\ outcome' = Ok(AggregateStats(Champions[call.champion], call.level, call.items,
                                    call.runes))
    /\ pc' = "done"
    /\ first_call' = [op |-> call.op, call |-> call, status |-> "ok",
                      value |-> outcome'.value]
    /\ UNCHANGED <<item_repository, rune_repository, call, damage_totals,
                   spell_burst_available, rank_lookups, passive_log, scores,
                   evaluations, previous_call>>

InitAggregate == InitWith(AggregateCalls, {FALSE}, {FALSE})
NextAggregate == AggregateStatsCall
SpecAggregate == InitAggregate /\ [][NextAggregate]_vars

(***************************************************************************)
(* _sustained_passive_damage as an operation, on one passive                *)
(***************************************************************************)
MaxCasts == 3

\* spell_burst passives without a cooldown and with each of the cooldowns, and a
\* dot passive
ProbePassives ==
    {ItemPassive("spell_burst",
        [damage |-> Num(30), scaling |-> [attack_damage |-> Rat(1, 10)],
         damage_type |-> "physical"]),
     ItemPassive("dot_percent_max_health", [percent |-> Rat(1, 100)])}
        \cup {ItemPassive("spell_burst",
                 [damage |-> Num(50), scaling |-> [ability_power |-> Rat(1, 10)],
                  cooldown |-> c]) :
                     c \in {Num(-1), Zero, Num(1), Num(2), Rat(5, 2), Inf}}

SustainedPassiveCalls ==
    [op : {"_sustained_passive_damage"}, champion : DOMAIN Champions, level : Levels,
     passive : ProbePassives, casts : 0..MaxCasts, duration : Durations,
     target_health : {Num(1000)}]

\* the passive of the call as _collect_passives hands it over
ProbeSources(passive) == <<[key |-> <<"item", "probe", 0>>, passive |-> passive]>>

SustainedPassiveDamageCall ==
    /\ pc = "pending"
    /\ call.op = "_sustained_passive_damage"
    /\ \E st \in {SustainedPassiveDamage(ProbeSources(call.passive),
                       AggregateStats(Champions[call.champion], call.level, <<>>, <<>>),
                       call.target_health, Champions[call.champion].abilities[1],
                       call.casts, call.duration)} :
           /\ outcome' = Ok(st.bonus)
           /\ damage_totals' = st.bonus
           /\ passive_log' = st.log
    /\ pc' = "done"
    /\ first_call' = [op |-> call.op, call |-> call, status |-> "ok",
                      value |-> outcome'.value]
    /\ UNCHANGED <<item_repository, rune_repository, call, spell_burst_available,
                   rank_lookups, scores, evaluations, previous_call>>

InitSustainedPassive == InitWith(SustainedPassiveCalls, {FALSE}, {FALSE})
NextSustainedPassive == SustainedPassiveDamageCall
SpecSustainedPassive == InitSustainedPassive /\ [][NextSustainedPassive]_vars

(***************************************************************************)
(* _casts_in_duration as an operation                                       *)
(***************************************************************************)
MaxHalves == 6

\* cooldowns and durations in half seconds, and a few of the order of 1e-9
CastsCalls ==
    LET HalfSeconds == {Rat(k, 2) : k \in -1..MaxHalves}
        Nanoseconds == {Rat(k, 2 * EpsilonInverse) : k \in {1, 3, 4, 5, 8, 16, 25}}
    IN  [op : {"_casts_in_duration"}, cooldown : HalfSeconds \cup {Inf, NegInf},
         duration : HalfSeconds]
            \cup
        [op : {"_casts_in_duration"},
         cooldown : {Rat(2, EpsilonInverse), Zero, Inf, NegInf}, duration : Nanoseconds]

CastsInDurationCall ==
    /\ pc = "pending"
    /\ call.op = "_casts_in_duration"
    /\ outcome' = Ok(CastsInDuration(call.cooldown, call.duration))
    /\ pc' = "done"
    /\ first_call' = [op |-> call.op, call |-> call, status |-> "ok",
                      value |-> outcome'.value]
    /\ UNCHANGED <<item_repository, rune_repository, call, damage_totals,
                   spell_burst_available, rank_lookups, passive_log, scores,
                   evaluations, previous_call>>

InitCasts == InitWith(CastsCalls, {FALSE}, {FALSE})
NextCasts == CastsInDurationCall
SpecCasts == InitCasts /\ [][NextCasts]_vars

(***************************************************************************)
(* Calls that pass identifiers, on calculators with and without            *)
(* repositories.                                                           *)
(***************************************************************************)
NoTarget == [health |-> Nothing, armor |-> Nothing, magic_resist |-> Nothing]

IdentifierItemRefs ==
    {EntityRef("rabadon"), IdRef("Luden's Tempest"), IdRef("no_such_item")}
IdentifierRuneLists ==
    {Nothing, Some(<<EntityRef("comet")>>), Some(<<IdRef("Domination - Electrocute")>>)}

RepositoryCalls ==
    [op : {"calculate_burst_combo"}, champion : DOMAIN Champions, level : {2},
     items : SeqsUpTo(IdentifierItemRefs, MaxItems), runes : IdentifierRuneLists,
     target : {NoTarget}, combo : {Nothing}]
        \cup
    [op : {"calculate_sustained_dps"}, champion : DOMAIN Champions, level : {2},
     items : SeqsUpTo(IdentifierItemRefs, MaxItems), runes : IdentifierRuneLists,
     target : {NoTarget}, duration : {Num(4)}]
        \cup
    [op : {"find_best_builds"}, champion : DOMAIN Champions, level : {2},
     item_pool : SeqsUpTo(IdentifierItemRefs, MaxItems), build_size : {-1, 1, 2},
     metric : {"burst", "damage"}, top_n : {1}, duration : {Num(4)},
     target : {NoTarget}, rune_pool : IdentifierRuneLists]

InitRepository == InitWith(RepositoryCalls, BOOLEAN, BOOLEAN)
NextRepository == CalculateBurstCombo \/ CalculateSustainedDps \/ FindBestBuildsCall
SpecRepository == InitRepository /\ [][NextRepository]_vars

(***************************************************************************)
(* Several calls, one after the other, on the same calculator.             *)
(***************************************************************************)
HistoryItemLists ==
    {<<>>, <<EntityRef("ludens")>>, <<EntityRef("ludens"), EntityRef("liandry")>>}
HistoryRuneLists == {Nothing, Some(<<EntityRef("electrocute")>>)}

HistoryCalls ==
    [op : {"calculate_burst_combo"}, champion : DOMAIN Champions, level : {2},
     items : HistoryItemLists, runes : HistoryRuneLists, target : {NoTarget},
     combo : {Nothing, Some(<<"Q">>), Some(<<"Q", "R">>)}]
        \cup
    [op : {"calculate_sustained_dps"}, champion : DOMAIN Champions, level : {2},
     items : HistoryItemLists, runes : HistoryRuneLists, target : {NoTarget},
     duration : {Num(4)}]

\* the caller takes the result and makes the next call on the same calculator
Invoke ==
    /\ pc = "done"
    /\ call' \in HistoryCalls
    /\ previous_call' = call
    /\ pc' = "pending"
    /\ outcome' = [status |-> "pending", value |-> None]
    /\ rank_lookups' = <<>>
    /\ passive_log' = <<>>
    /\ scores' = <<>>
    /\ evaluations' = 0
    /\ UNCHANGED <<item_repository, rune_repository, damage_totals,
                   spell_burst_available, first_call>>

InitHistory == InitWith(HistoryCalls, {FALSE}, {FALSE})
NextHistory == Invoke \/ CalculateBurstCombo \/ CalculateSustainedDps
SpecHistory == InitHistory /\ [][NextHistory]_vars

(***************************************************************************)
(* Properties of find_best_builds, checked under SpecBuilds.                *)
(***************************************************************************)
Returned ==
    pc = "done" /\ call.op = "find_best_builds" /\ outcome.status = "ok"

\* C1: the list find_best_builds returns is sorted by metric_value in descending
\* order, has at most top_n entries (none for a negative top_n), and every
\* recommendation in it names exactly build_size distinct items, whatever the pool,
\* the build size and top_n are
C1_SortedBoundedDistinct ==
    Returned =>
        /\ \A i \in 1..(Len(outcome.value) - 1) :
              Le(outcome.value[i + 1].metric_value, outcome.value[i].metric_value)
        /\ Len(outcome.value) <= Max(call.top_n, 0)
        /\ \A i \in DOMAIN outcome.value :
              /\ Len(outcome.value[i].items) = call.build_size
              /\ Cardinality({outcome.value[i].items[j] :
                                 j \in DOMAIN outcome.value[i].items}) = call.build_size

\* the references find_best_builds tries as runes, each as the rune list of one
\* evaluator call: the rune pool of the call, every rune of the repository when no
\* pool is given, or the single no-rune candidate
CandidateRunes ==
    LET refs == IF call.rune_pool # Nothing THEN call.rune_pool.some
                ELSE IF rune_repository
                THEN <<EntityRef("electrocute"), EntityRef("comet")>>
                ELSE <<>>
    IN  IF refs = <<>> THEN <<Nothing>> ELSE [k \in DOMAIN refs |-> Some(<<refs[k]>>)]

CandidateName(runes) ==
    IF runes = Nothing THEN None ELSE Runes[runes.some[1].key].name

\* the metric of the call as the public evaluators compute it for one item list and
\* one candidate
DirectMetric(items, runes) ==
    IF call.metric = "burst"
    THEN BurstCombo(Champions[call.champion], call.level, items, runes,
                    call.target.health, call.target.armor, call.target.magic_resist,
                    Nothing).value
    ELSE SustainedDps(Champions[call.champion], call.level, items, runes, call.duration,
                      call.target.health, call.target.armor,
                      call.target.magic_resist).value

\* C2: find_best_builds produces one recommendation per item combination of the
\* pool, in the order of the combinations; its metric_value is the maximum over the
\* candidate runes of the metric evaluated directly on that combination with that one
\* rune, its rune is a candidate that attains the maximum, and for top_n >= 1 the
\* first result returned is the maximum over all (combination, rune) pairs
C2_BestRunePerCombination ==
    Returned =>
        LET combos == Combinations(call.item_pool, call.build_size)
        IN  Bind([c \in DOMAIN combos |->
                    [k \in DOMAIN CandidateRunes |->
                        DirectMetric(combos[c], CandidateRunes[k])]], LAMBDA direct :
              /\ Len(scores) = Len(combos)
              /\ \A c \in DOMAIN combos :
                    /\ scores[c].items =
                          [j \in DOMAIN combos[c] |-> Items[combos[c][j].key].name]
                    /\ \A k \in DOMAIN CandidateRunes :
                          Le(direct[c][k], scores[c].metric_value)
                    /\ \E k \in DOMAIN CandidateRunes :
                          /\ CandidateName(CandidateRunes[k]) = scores[c].rune
                          /\ direct[c][k] = scores[c].metric_value
              /\ (call.top_n >= 1 /\ combos # <<>>) =>
                    /\ outcome.value # <<>>
                    /\ \A c \in DOMAIN combos : \A k \in DOMAIN CandidateRunes :
                          Le(direct[c][k], outcome.value[1].metric_value))

\* a search over three combinations and two candidate runes in which the first
\* candidate wins one combination and the second wins another
C2_Witness ==
    /\ Returned
    /\ Len(scores) = 3
    /\ Len(CandidateRunes) = 2
    /\ \E c \in DOMAIN scores : scores[c].rune = CandidateName(CandidateRunes[1])
    /\ \E c \in DOMAIN scores : scores[c].rune = CandidateName(CandidateRunes[2])
    /\ Len(outcome.value) >= 1

\* C3: a find_best_builds call whose metric is neither "burst" nor "dps" (and whose
\* build size itertools accepts) ends in the unsupported-metric error and returns no
\* list, not even an empty one
C3_UnsupportedMetricRaised ==
    (pc = "done" /\ call.op = "find_best_builds"
        /\ call.metric \notin {"burst", "dps"} /\ call.build_size >= 0)
    => outcome.status = "UnsupportedMetric"

(***************************************************************************)
(* Properties of the repository lookups, checked under SpecRepository.      *)
(***************************************************************************)
CallItems == IF call.op = "find_best_builds" THEN call.item_pool ELSE call.items

CallRunes ==
    LET runes == IF call.op = "find_best_builds" THEN call.rune_pool ELSE call.runes
    IN  IF runes = Nothing THEN <<>> ELSE runes.some

ByIdentifier(refs) == \E i \in DOMAIN refs : refs[i].kind = "identifier"

NothingComputed ==
    /\ evaluations = 0
    /\ damage_totals = NoDamage
    /\ rank_lookups = <<>>
    /\ scores = <<>>

WalkOf(sequence) ==
    LET champion == Champions[call.champion]
        item_objects == EnsureItems(call.items).value
        rune_objects == EnsureRunes(CallRunes).value
    IN  Bind(AggregateStats(champion, call.level, item_objects, rune_objects),
             LAMBDA stats :
        Bind(CollectPassives(item_objects, rune_objects), LAMBDA passive_sources :
        Bind(BurstWalk(champion, call.level, sequence, stats, passive_sources,
                       OrDefault(call.target.health, Num(default_target_health)),
                       [i |-> 1, totals |-> NoDamage,
                        available |-> SpellBurstAvailable(passive_sources),
                        lookups |-> <<>>, log |-> <<>>]), LAMBDA frame :
          [value |-> ScaledTotal(frame.totals,
                       OrDefault(call.target.armor, Num(default_target_armor)),
                       OrDefault(call.target.magic_resist,
                                 Num(default_target_magic_resist))),
           totals |-> frame.totals, available |-> frame.available])))

Unlocked(token) ==
    Upper(token) = "AA" \/ AbilityRank(Champions[call.champion], token, call.level) > 0

UnlockedAbility(ability) == RankAtLevel(ability, call.level) > 0

\* C5: an ability whose rank at the level is <= 0 is skipped by both evaluators: the
\* damage formula is never invoked with a rank <= 0, no passive is triggered at a
\* locked token or for a locked ability, and the totals, the spell_burst flags and
\* the value returned are those of the same call with the locked abilities left out
C5_LockedAbilitiesSkipped ==
    (pc = "done" /\ outcome.status = "ok") =>
        /\ \A i \in DOMAIN rank_lookups : rank_lookups[i].rank > 0
        /\ call.op = "calculate_burst_combo" =>
              LET sequence == ComboSequence(call.combo, Champions[call.champion])
                  walked == WalkOf(SelectSeq(sequence, Unlocked))
              IN  /\ \A i \in DOMAIN passive_log : Unlocked(sequence[passive_log[i].token])
                  /\ Len(rank_lookups)
                        = Cardinality({i \in DOMAIN sequence :
                                          Upper(sequence[i]) # "AA" /\ Unlocked(sequence[i])})
                  /\ damage_totals = walked.totals
                  /\ spell_burst_available = walked.available
                  /\ outcome.value = walked.value
        /\ call.op = "calculate_sustained_dps" =>
              LET champion == Champions[call.champion]
                  trimmed == [champion EXCEPT
                                 !.abilities = SelectSeq(@, UnlockedAbility)]
                  direct == SustainedDps(trimmed, call.level, call.items, call.runes,
                                         call.duration, call.target.health,
                                         call.target.armor, call.target.magic_resist)
              IN  /\ \A i \in DOMAIN passive_log :
                        UnlockedAbility(ChampionAbility(champion, passive_log[i].ability))
                  /\ damage_totals = direct.totals
                  /\ outcome.value = direct.value

\* a combo whose first token is an ability locked at level 1, followed by an
\* unlocked one that triggers the passives of the equipped items
C5_Witness ==
    /\ pc = "done"
    /\ call.op = "calculate_burst_combo"
    /\ call.level = 1
    /\ call.combo = Some(<<"W", "Q">>)
    /\ rank_lookups = <<[key |-> "Q", rank |-> 1]>>
    /\ \E i \in DOMAIN passive_log : passive_log[i].type = "spell_burst"
    /\ \E i \in DOMAIN passive_log : passive_log[i].type = "dot_percent_max_health"
    /\ \A i \in DOMAIN passive_log : passive_log[i].token = 2

\* C9: calculate_sustained_dps with a duration <= 0 raises nothing and returns
\* exactly 0: no ability is cast, no passive procs and no damage is accumulated
C9_NonPositiveDurationYieldsZero ==
    (pc = "done" /\ call.op = "calculate_sustained_dps" /\ Le(call.duration, Zero)) =>
        /\ outcome.status = "ok"
        /\ outcome.value = Zero
        /\ damage_totals = NoDamage
        /\ rank_lookups = <<>>
        /\ passive_log = <<>>

\* a zero duration at level 3 (every ability unlocked, one of them without a
\* cooldown) with two items and a rune
C9_Witness ==
    /\ pc = "done"
    /\ call.op = "calculate_sustained_dps"
    /\ call.duration = Zero
    /\ call.level = 3
    /\ Len(call.items) = 2
    /\ call.runes # Nothing
    /\ outcome.status = "ok"
    /\ outcome.value = Zero

\* C10: when the caller passes a combo override to calculate_burst_combo, the empty
\* sequence included, the burst total is that of walking exactly the tokens of the
\* override
C10_OverrideWalkedExactly ==
    (pc = "done" /\ call.op = "calculate_burst_combo" /\ call.combo # Nothing
        /\ outcome.status = "ok")
    => outcome.value = WalkOf(call.combo.some).value

(***************************************************************************)
(* Properties of the mitigation, checked under SpecMitigation.              *)
(***************************************************************************)
Unmitigated ==
    /\ pc = "done"
    /\ call.op = "scaled_total"
    /\ call.armor = Zero
    /\ call.magic_resist = Zero

\* C6: with armor = 0 and magic_resist = 0, scaled_total equals
\* physical + magic + true for every DamageComponents value
C6_IdentityForEveryValue ==
    Unmitigated => outcome.value = Add(Add(call.physical, call.magic), call.true)

NonNegative(x) == IF Lt(x, Zero) THEN Zero ELSE x

\* C6, amended: with armor = 0 and magic_resist = 0, scaled_total equals
\* max(physical, 0) + max(magic, 0) + true
C6_IdentityOfClampedSubtotals ==
    Unmitigated =>
        outcome.value = Add(Add(NonNegative(call.physical), NonNegative(call.magic)),
                            call.true)

\* a negative physical subtotal next to a positive magic one, unmitigated
C6_Witness ==
    /\ Unmitigated
    /\ Lt(call.physical, Zero)
    /\ Lt(Zero, call.magic)
    /\ outcome.value = Add(call.magic, call.true)

\* the contribution of the call's amount is strictly decreasing in the resistance
\* over the resistances of the model: smaller at every larger resistance, greater at
\* every smaller one
StrictlyDecreasingInResistance ==
    \A other \in Resistances :
        /\ Lt(call.resistance, other) =>
              Lt(ApplyResistance(call.amount, other), outcome.value)
        /\ Lt(other, call.resistance) =>
              Lt(outcome.value, ApplyResistance(call.amount, other))

\* C7: for a fixed physical subtotal the mitigated contribution strictly decreases
\* as armor increases from 0, is strictly greater at any negative armor than at
\* armor 0, and grows strictly as armor decreases further
C7_StrictlyMonotoneForEverySubtotal ==
    (pc = "done" /\ call.op = "_apply_resistance") => StrictlyDecreasingInResistance

\* C7, amended: for a fixed physical subtotal > 0 the mitigated contribution is
\* strictly decreasing in armor, below and above 0; a subtotal <= 0 contributes
\* exactly 0 at every armor
C7_StrictlyMonotoneForPositiveSubtotal ==
    (pc = "done" /\ call.op = "_apply_resistance") =>
        IF Lt(Zero, call.amount) THEN StrictlyDecreasingInResistance
        ELSE outcome.value = Zero

\* a positive amount under a negative resistance that is neither the smallest nor
\* the largest of the model
C7_Witness ==
    /\ pc = "done"
    /\ call.op = "_apply_resistance"
    /\ Lt(Zero, call.amount)
    /\ Lt(call.resistance, Zero)
    /\ \E other \in Resistances : Lt(other, call.resistance)
    /\ Lt(call.amount, outcome.value)

(***************************************************************************)
(* Properties of repeated calls, checked under SpecHistory.                 *)
(***************************************************************************)
\* C8: whatever calls were made on the calculator before, a call of
\* calculate_burst_combo or calculate_sustained_dps with the arguments of the
\* first call made on it (made then on a fresh calculator) returns what that first
\* call returned: nothing an earlier call consumed or accumulated is missing or
\* left over
C8_HistoryIndependent ==
    (pc = "done" /\ first_call.call = call) =>
        outcome = [status |-> first_call.status, value |-> first_call.value]

\* the first call, a burst that consumes the spell_burst passives of an item and a
\* rune, made again right after a different burst call that consumed them too
C8_Witness ==
    /\ pc = "done"
    /\ first_call.call = call
    /\ call.op = "calculate_burst_combo"
    /\ previous_call # NoCall
    /\ previous_call # call
    /\ previous_call.op = "calculate_burst_combo"
    /\ previous_call.items = call.items
    /\ previous_call.runes = call.runes
    /\ Len(call.items) = 2
    /\ call.runes # Nothing
    /\ \A k \in DOMAIN spell_burst_available : ~spell_burst_available[k]
    /\ Cardinality(DOMAIN spell_burst_available) = 2

(***************************************************************************)
(* Properties of the passives in the burst walk, checked under Spec.        *)
(***************************************************************************)
BurstDone ==
    pc = "done" /\ call.op = "calculate_burst_combo" /\ outcome.status = "ok"

CallSequence == ComboSequence(call.combo, Champions[call.champion])

\* the positions of the sequence that hold an ability token whose rank is > 0
Qualifying ==
    {i \in DOMAIN CallSequence :
        /\ Upper(CallSequence[i]) # "AA"
        /\ AbilityRank(Champions[call.champion], CallSequence[i], call.level) > 0}

CallStats ==
    AggregateStats(Champions[call.champion], call.level, EnsureItems(call.items).value,
                   EnsureRunes(CallRunes).value)

CallPassives ==
    CollectPassives(EnsureItems(call.items).value, EnsureRunes(CallRunes).value)

CallTargetHealth == OrDefault(call.target.health, Num(default_target_health))

OfType(passives, types) ==
    {j \in DOMAIN passives : passives[j].passive.type \in types}

\* the passives of the call without those of the given types, keys kept
Without(types) ==
    LET keep(entry) == entry.passive.type \notin types
    IN  SelectSeq(CallPassives, keep)

\* the unmitigated totals of the call's walk when the passives are the given ones
TotalsWith(passives) ==
    BurstWalk(Champions[call.champion], call.level, CallSequence, CallStats, passives,
              CallTargetHealth,
              [i |-> 1, totals |-> NoDamage, available |-> SpellBurstAvailable(passives),
               lookups |-> <<>>, log |-> <<>>]).totals

RECURSIVE SumFrom(_, _)
SumFrom(components, j) ==
    IF j > Len(components) THEN NoDamage
    ELSE IAdd(components[j], SumFrom(components, j + 1))

\* one proc of every distinct spell_burst source: a source equipped twice has one key
\* and counts once
OneProcOfEachSource(passives, stats) ==
    SumFrom([j \in DOMAIN passives |->
               IF /\ passives[j].passive.type = "spell_burst"
                  /\ \A i \in 1..(j - 1) : passives[i].key # passives[j].key
               THEN ComponentsForDamage(
                        PassiveSpellBurstDamage(passives[j].passive, stats),
                        Get(passives[j].passive.values, "damage_type", "magic"))
               ELSE NoDamage], 1)

LogOf(type) == SelectSeq(passive_log, LAMBDA entry : entry.type = type)

\* C11: in one burst combo evaluation every spell_burst source (origin, entity id,
\* passive index) contributes its damage at most once, however many ability tokens
\* the sequence has: it fires on the first ability token whose rank is > 0, never on
\* a later one and never on an "AA" token, so the totals are those of the walk
\* without spell_burst passives plus one proc of each distinct source when some
\* ability token qualifies, and plus nothing otherwise
C11_SpellBurstOncePerSource ==
    BurstDone =>
        Bind(CallPassives, LAMBDA passives :
        Bind(LogOf("spell_burst"), LAMBDA procs :
          /\ \A a, b \in DOMAIN procs : procs[a].key = procs[b].key => a = b
          /\ \A a \in DOMAIN procs :
                /\ procs[a].token \in Qualifying
                /\ \A i \in Qualifying : procs[a].token <= i
          /\ {procs[a].key : a \in DOMAIN procs}
                = IF Qualifying = {} THEN {}
                  ELSE {passives[j].key : j \in OfType(passives, {"spell_burst"})}
          /\ damage_totals
                = IAdd(TotalsWith(Without({"spell_burst"})),
                       IF Qualifying = {} THEN NoDamage
                       ELSE OneProcOfEachSource(passives, CallStats))))

\* the champion's own sequence at level 3: three ability tokens of rank > 0 around
\* an "AA", with a spell_burst item and a spell_burst rune, both fired at token 1
C11_Witness ==
    /\ BurstDone
    /\ call.combo = Nothing
    /\ call.level = 3
    /\ Cardinality(Qualifying) = 3
    /\ Len(LogOf("spell_burst")) = 2
    /\ \A a \in DOMAIN passive_log :
          passive_log[a].type = "spell_burst" => passive_log[a].token = 1
    /\ \E a \in DOMAIN passive_log : passive_log[a].key[1] = "item"
    /\ \E a \in DOMAIN passive_log : passive_log[a].key[1] = "rune"

\* amount of damage of the given type, as unmitigated components
OfDamageType(amount, damage_type) ==
    CASE Lower(damage_type) = "physical" -> DamageComponents(amount, Zero, Zero)
      [] Lower(damage_type) = "true" -> DamageComponents(Zero, Zero, amount)
      [] OTHER -> DamageComponents(Zero, amount, Zero)

\* percent * target_health of every dot_percent_max_health passive, once each
OneTickOfEachDot(passives, target_health) ==
    SumFrom([j \in DOMAIN passives |->
               IF passives[j].passive.type = "dot_percent_max_health"
               THEN OfDamageType(Mul(Get(passives[j].passive.values, "percent", Zero),
                                     target_health),
                                 Get(passives[j].passive.values, "damage_type", "magic"))
               ELSE NoDamage], 1)

\* C12: in one burst combo evaluation each dot_percent_max_health passive contributes
\* percent * target_health once per ability token of the sequence whose rank is > 0,
\* so k such tokens give k * percent * target_health before mitigation, and it
\* contributes nothing for "AA" tokens or for ability tokens of rank 0
C12_DotOncePerQualifyingToken ==
    BurstDone =>
        Bind(CallPassives, LAMBDA passives :
        Bind(LogOf("dot_percent_max_health"), LAMBDA ticks :
          /\ \A a \in DOMAIN ticks : ticks[a].token \in Qualifying
          /\ \A i \in Qualifying :
                Cardinality({a \in DOMAIN ticks : ticks[a].token = i})
                    = Cardinality(OfType(passives, {"dot_percent_max_health"}))
          /\ damage_totals
                = IAdd(TotalsWith(Without({"dot_percent_max_health"})),
                       Scaled(OneTickOfEachDot(passives, CallTargetHealth),
                              Num(Cardinality(Qualifying))))))

\* the champion's own sequence at level 2, two ability tokens of rank > 0, an "AA"
\* and a locked ability, with the dot item equipped twice on a 1000 health target
C12_Witness ==
    /\ BurstDone
    /\ call.combo = Nothing
    /\ call.level = 2
    /\ call.target.health = Some(Num(1000))
    /\ Cardinality(Qualifying) = 2
    /\ Len(CallSequence) = 4
    /\ Len(LogOf("dot_percent_max_health")) = 4
    /\ \A a \in DOMAIN passive_log :
          passive_log[a].type = "dot_percent_max_health" =>
              passive_log[a].amount = Num(10)

(***************************************************************************)
(* Properties of the stat aggregation, checked under SpecAggregate.         *)
(***************************************************************************)
Aggregated == pc = "done" /\ call.op = "_aggregate_stats"

\* the items of the call followed by its runes: the enumeration order
CallSources == call.items \o call.runes

\* the sum of one stat over the sources from source i on
RECURSIVE AdditiveFrom(_, _)
AdditiveFrom(stat, i) ==
    IF i > Len(CallSources) THEN Zero
    ELSE Add(Get(CallSources[i].stats, stat, Zero), AdditiveFrom(stat, i + 1))

\* the stat_multiplier passives of all sources that target one stat, in order
MultipliersOn(stat) ==
    LET RECURSIVE From(_)
        From(i) ==
            IF i > Len(CallSources) THEN <<>>
            ELSE SelectSeq(CallSources[i].passives,
                           LAMBDA passive : /\ passive.type = "stat_multiplier"
                                            /\ passive.values.stat = stat)
                 \o From(i + 1)
    IN  From(1)

\* value * (1 + m) for every multiplier of the list, one after another
RECURSIVE Compounded(_, _, _)
Compounded(value, multipliers, j) ==
    IF j > Len(multipliers) THEN value
    ELSE Compounded(Mul(value, Add(One, multipliers[j].values.multiplier)),
                    multipliers, j + 1)

\* C13: stat aggregation is two-phase: for every stat the aggregated value is the
\* level-derived base plus the sum of that stat over all items and all runes, with
\* each stat_multiplier passive targeting the stat then applied as
\* value * (1 + multiplier), one after another in item-then-rune order
C13_TwoPhaseAggregation ==
    Aggregated =>
        \A stat \in Stats :
            outcome.value[stat]
                = Compounded(Add(LevelStats(Champions[call.champion], call.level)[stat],
                                 AdditiveFrom(stat, 1)),
                             MultipliersOn(stat), 1)

\* Rabadon's first, then the item with a second ability_power multiplier, then a rune
\* that adds ability_power: the additive stats of the later sources are scaled too,
\* and the two multipliers give the factor (1 + 1/2) * (1 + 1/5), not 1 + 1/2 + 1/5
C13_Witness ==
    /\ Aggregated
    /\ call.items = <<Items.rabadon, Amplifier>>
    /\ call.runes = <<Runes.comet>>
    /\ Len(MultipliersOn("ability_power")) = 2
    /\ outcome.value["ability_power"] = Mul(Num(70), Rat(9, 5))
    /\ outcome.value["ability_power"] # Mul(Num(70), Rat(17, 10))
    /\ outcome.value["attack_damage"]
          = Mul(Add(AttackDamageAt(Champions[call.champion], call.level), Num(20)),
                Rat(11, 10))

(***************************************************************************)
(* Properties of the sustained passives, checked under SpecSustainedPassive. *)
(***************************************************************************)
SpellBurstSustained ==
    /\ pc = "done"
    /\ call.op = "_sustained_passive_damage"
    /\ call.passive.type = "spell_burst"

\* what one proc of the call's passive contributes in burst mode
BurstModeProc ==
    BurstPassiveDamage(ProbeSources(call.passive),
                       AggregateStats(Champions[call.champion], call.level, <<>>, <<>>),
                       call.target_health, 1,
                       SpellBurstAvailable(ProbeSources(call.passive))).bonus

\* the passive procs the given number of times, each proc worth a burst-mode proc
ProcsAre(procs) ==
    /\ Len(passive_log) = 1
    /\ passive_log[1].procs = procs
    /\ outcome.value = Scaled(BurstModeProc, Num(procs))

\* C14: in sustained mode a spell_burst passive procs
\* min(ability_casts, casts_in_duration(passive_cooldown, duration)) times when it
\* has a positive cooldown and exactly ability_casts times when no positive cooldown
\* is set on it (cooldown absent, zero or negative); each proc contributes the same
\* amount as in burst mode
C14_ProcsUnlimitedWithoutCooldown ==
    SpellBurstSustained =>
        IF "cooldown" \in DOMAIN call.passive.values
              /\ Lt(Zero, call.passive.values.cooldown)
        THEN ProcsAre(Min(call.casts,
                          CastsInDuration(call.passive.values.cooldown, call.duration)))
        ELSE ProcsAre(call.casts)

\* C14, amended: a passive without a cooldown takes the duration of the window as
\* its cooldown.  With c the cooldown so taken, the passive procs
\* min(ability_casts, casts_in_duration(c, duration)) times when c > 0, which for a
\* passive without a cooldown is min(ability_casts, 1), and exactly ability_casts
\* times when c <= 0; each proc contributes the same amount as in burst mode
C14_ProcsWithDurationAsDefaultCooldown ==
    SpellBurstSustained =>
        IF "cooldown" \in DOMAIN call.passive.values
        THEN IF Lt(Zero, call.passive.values.cooldown)
             THEN ProcsAre(Min(call.casts,
                               CastsInDuration(call.passive.values.cooldown,
                                               call.duration)))
             ELSE ProcsAre(call.casts)
        ELSE IF Lt(Zero, call.duration)
             THEN ProcsAre(Min(call.casts, 1))
             ELSE ProcsAre(call.casts)

\* three casts in a window of 4 with a passive that has no cooldown: one proc
C14_Witness ==
    /\ SpellBurstSustained
    /\ "cooldown" \notin DOMAIN call.passive.values
    /\ call.casts = 3
    /\ call.duration = Num(4)
    /\ passive_log[1].procs = 1
    /\ outcome.value = BurstModeProc
    /\ outcome.value # NoDamage

(***************************************************************************)
(* Properties of the cast count, checked under SpecCasts.                   *)
(***************************************************************************)
CastsCounted == pc = "done" /\ call.op = "_casts_in_duration"

\* duration / cooldown, for a cooldown > 0
CooldownsElapsed == Div(call.duration, call.cooldown)

\* the k + 1 with duration in (k * cooldown, (k + 1) * cooldown]
CastsByWholeCooldowns ==
    CHOOSE n \in 1..(Floor(CooldownsElapsed) + 1) :
        /\ Lt(Num(n - 1), CooldownsElapsed)
        /\ Le(CooldownsElapsed, Num(n))

\* C15: casts_in_duration returns 0 whenever duration <= 0 or the cooldown is
\* infinite; max(1, 10 * duration truncated) when cooldown <= 0 and duration > 0;
\* and otherwise one cast at time 0 and one more for each whole cooldown that
\* elapses strictly inside the window: a duration of exactly k cooldowns gives k
\* casts and any duration in (k * cooldown, (k + 1) * cooldown] gives k + 1
C15_CastsByWholeCooldowns ==
    CastsCounted =>
        outcome.value
            = IF Le(call.duration, Zero) \/ IsInf(call.cooldown) THEN 0
              ELSE IF Le(call.cooldown, Zero)
              THEN Max(1, Trunc(Mul(call.duration, Num(10))))
              ELSE CastsByWholeCooldowns

\* k * cooldown + 1e-9 <= duration
ElapsedBeforeEnd(k) ==
    AtLeastEpsilon(Mul(Sub(CooldownsElapsed, Num(k)), call.cooldown))

\* C15, amended: casts_in_duration returns 0 whenever duration <= 0 or the cooldown
\* is positive infinity; max(1, 10 * duration truncated) when cooldown <= 0
\* (negative infinity included) and duration > 0; and otherwise one cast at time 0
\* and one more for each whole cooldown that has elapsed at least 1e-9 before the
\* end of the window: a duration of exactly k cooldowns gives k casts, a duration d
\* with k * cooldown + 1e-9 <= d < (k + 1) * cooldown + 1e-9 gives k + 1, and so a
\* duration less than 1e-9 above k cooldowns still gives k
C15_CastsByCooldownsElapsedBeforeEnd ==
    CastsCounted =>
        IF Le(call.duration, Zero) \/ call.cooldown = Inf THEN outcome.value = 0
        ELSE IF Le(call.cooldown, Zero)
        THEN outcome.value = Max(1, Trunc(Mul(call.duration, Num(10))))
        ELSE /\ outcome.value >= 1
             /\ \A k \in 1..(outcome.value - 1) : ElapsedBeforeEnd(k)
             /\ ~ElapsedBeforeEnd(outcome.value)
             /\ CooldownsElapsed[2] = 1 => outcome.value = CooldownsElapsed[1]

\* a cooldown of 2e-9 and a duration of 2.5e-9, less than 1e-9 above one cooldown:
\* one cast
C15_Witness ==
    /\ CastsCounted
    /\ call.cooldown = Rat(2, EpsilonInverse)
    /\ call.duration = Rat(5, 2 * EpsilonInverse)
    /\ Lt(One, CooldownsElapsed)
    /\ outcome.value = 1

(***************************************************************************)
(* Properties of the sustained evaluation, checked under Spec.              *)
(***************************************************************************)
DpsDone ==
    /\ pc = "done"
    /\ call.op = "calculate_sustained_dps"
    /\ outcome.status = "ok"
    /\ Lt(Zero, call.duration)

\* the ability is unlocked at the level of the call and its cooldown is finite
Castable(ability) ==
    /\ RankAtLevel(ability, call.level) > 0
    /\ ~IsInf(CooldownAtRank(ability, RankAtLevel(ability, call.level)))

\* casts_in_duration of the haste-adjusted cooldown of a castable ability
CastsOf(ability, stats) ==
    LET cooldown == CooldownAtRank(ability, RankAtLevel(ability, call.level))
        ability_haste == stats["ability_haste"]
    IN  CastsInDuration(IF Lt(Zero, ability_haste)
                        THEN Div(cooldown, Add(One, Div(ability_haste, Num(100))))
                        ELSE cooldown,
                        call.duration)

\* casts * per-cast ability damage + sustained passive damage for that ability
SustainedOfAbility(ability, stats, passives) ==
    IF ~Castable(ability) THEN NoDamage
    ELSE IAdd(Scaled(AbilityDamage(ability, stats, RankAtLevel(ability, call.level)),
                     Num(CastsOf(ability, stats))),
              SustainedPassiveDamage(passives, stats, CallTargetHealth, ability,
                                     CastsOf(ability, stats), call.duration).bonus)

\* C16: for duration > 0, calculate_sustained_dps equals the mitigation, applied
\* once to the accumulated per-type totals, of the sum over every ability of the
\* champion with rank > 0 and finite cooldown, in the combo_sequence or not, of
\* casts * per-cast ability damage + sustained passive damage for that ability,
\* plus per-attack damage * attack_speed * duration, divided by the duration, with
\* casts = casts_in_duration(cooldown / (1 + ability_haste / 100) if
\* ability_haste > 0 else cooldown, duration); abilities with infinite cooldown
\* contribute nothing
C16_SustainedDpsFormula ==
    DpsDone =>
        Bind(CallStats, LAMBDA stats :
        Bind(CallPassives, LAMBDA passives :
          LET abilities == Champions[call.champion].abilities
              total ==
                IAdd(SumFrom([i \in DOMAIN abilities |->
                                SustainedOfAbility(abilities[i], stats, passives)], 1),
                     Scaled(AutoAttackDamage(stats, passives),
                            Mul(stats["attack_speed"], call.duration)))
          IN  /\ damage_totals = total
              /\ outcome.value
                    = Div(ScaledTotal(total,
                              OrDefault(call.target.armor, Num(default_target_armor)),
                              OrDefault(call.target.magic_resist,
                                        Num(default_target_magic_resist))),
                          call.duration)
              /\ [i \in DOMAIN rank_lookups |-> rank_lookups[i].key]
                    = [i \in DOMAIN SelectSeq(abilities, Castable) |->
                          SelectSeq(abilities, Castable)[i].key]))

\* level 3 with the haste item on a target with resistances: Q, W and R are cast, R
\* is not in the combo_sequence, and E, whose cooldown is infinite, is left out
C16_Witness ==
    /\ DpsDone
    /\ call.level = 3
    /\ call.duration = Rat(5, 2)
    /\ call.target.armor # Nothing
    /\ \E i \in DOMAIN call.items : call.items[i].key = "ludens"
    /\ [i \in DOMAIN rank_lookups |-> rank_lookups[i].key] = <<"Q", "W", "R">>
    /\ \A i \in DOMAIN Champions[call.champion].combo_sequence :
          Champions[call.champion].combo_sequence[i] # "R"
    /\ Lt(Zero, outcome.value)

\* the spell_burst passives of the call that have a cooldown > 0 of their own
Limited(passives) ==
    {j \in OfType(passives, {"spell_burst"}) :
        /\ "cooldown" \in DOMAIN passives[j].passive.values
        /\ Lt(Zero, passives[j].passive.values.cooldown)}

\* the sum over every castable ability of
\* min(casts of that ability, casts_in_duration(passive_cooldown, duration))
ProcsOverAbilities(passive, stats) ==
    LET abilities == SelectSeq(Champions[call.champion].abilities, Castable)
        RECURSIVE From(_)
        From(i) ==
            IF i > Len(abilities) THEN 0
            ELSE Min(CastsOf(abilities[i], stats),
                     CastsInDuration(passive.values.cooldown, call.duration))
                 + From(i + 1)
    IN  From(1)

\* the procs the sustained evaluation logged for the passives with the given key
RECURSIVE ProcsLogged(_, _)
ProcsLogged(key, i) ==
    IF i > Len(passive_log) THEN 0
    ELSE (IF passive_log[i].key = key /\ passive_log[i].type = "spell_burst"
          THEN passive_log[i].procs ELSE 0)
         + ProcsLogged(key, i + 1)

\* the unmitigated totals of the call's sustained evaluation when the passives are
\* the given ones
SustainedTotalsWith(passives) ==
    IAdd(SustainedWalk(Champions[call.champion], call.level, CallStats, passives,
                       CallTargetHealth, call.duration,
                       [i |-> 1, totals |-> NoDamage, lookups |-> <<>>,
                        log |-> <<>>]).totals,
         SustainedAutoDamage(CallStats, passives, call.duration))

\* C17: in sustained mode the proc limit of a spell_burst passive is applied
\* separately for each ability, not once for the window: the total procs of a
\* passive with a cooldown are the sum, over every ability with rank > 0, finite
\* cooldown and at least one cast, of
\* min(casts of that ability, casts_in_duration(passive_cooldown, duration)), its
\* damage is that many procs, and with no such ability there is no spell_burst
\* damage at all
C17_ProcLimitPerAbility ==
    DpsDone =>
        Bind(CallStats, LAMBDA stats :
        Bind(CallPassives, LAMBDA passives :
          /\ \A j \in Limited(passives) :
                ProcsLogged(passives[j].key, 1)
                    = Cardinality({i \in DOMAIN passives :
                                      passives[i].key = passives[j].key})
                        * ProcsOverAbilities(passives[j].passive, stats)
          /\ Limited(passives) = OfType(passives, {"spell_burst"}) =>
                damage_totals
                    = IAdd(SustainedTotalsWith(Without({"spell_burst"})),
                           SumFrom([j \in DOMAIN passives |->
                              IF j \in Limited(passives)
                              THEN OfDamageType(
                                     Mul(Num(ProcsOverAbilities(passives[j].passive,
                                                                stats)),
                                         PassiveSpellBurstDamage(passives[j].passive,
                                                                 stats)),
                                     Get(passives[j].passive.values, "damage_type",
                                         "magic"))
                              ELSE NoDamage], 1))
          /\ SelectSeq(Champions[call.champion].abilities, Castable) = <<>> =>
                /\ LogOf("spell_burst") = <<>>
                /\ damage_totals = SustainedTotalsWith(Without({"spell_burst"}))))

\* Luden's (cooldown 2) at level 3 over a window of 4: two procs fit in the window
\* and each of the three abilities that are cast gets two
C17_Witness ==
    /\ DpsDone
    /\ call.level = 3
    /\ call.duration = Num(4)
    /\ call.items = <<EntityRef("ludens")>>
    /\ call.runes = Nothing
    /\ Len(rank_lookups) = 3
    /\ CastsInDuration(Num(2), call.duration) = 2
    /\ ProcsLogged(<<"item", "ludens", 0>>, 1) = 6
    /\ \A i \in DOMAIN passive_log : passive_log[i].procs = 2

\* level 0: no ability is unlocked, the attacks are all that is left
C17_NoAbilityWitness ==
    /\ DpsDone
    /\ call.level = 0
    /\ \E i \in DOMAIN call.items : call.items[i].key = "ludens"
    /\ rank_lookups = <<>>
    /\ passive_log = <<>>
    /\ Lt(Zero, outcome.value)

(***************************************************************************)
(* Ties in find_best_builds, checked under SpecBuilds.                      *)
(***************************************************************************)
\* the place a stable descending sort gives entry c of the list: after every entry
\* with a greater value and after the earlier entries with the same value
StablePlace(entries, c) ==
    1 + Cardinality({d \in DOMAIN entries :
                        Lt(entries[c].metric_value, entries[d].metric_value)})
      + Cardinality({d \in 1..(c - 1) :
                        entries[d].metric_value = entries[c].metric_value})

\* C18: ties in find_best_builds are resolved by enumeration order: among the runes
\* that give an item combination the same best score the one that comes first in
\* the rune pool is reported, and recommendations with equal metric_value keep the
\* order in which their combinations were generated from the item pool
C18_TiesKeepEnumerationOrder ==
    Returned =>
        LET combos == Combinations(call.item_pool, call.build_size)
        IN  Bind([c \in DOMAIN combos |->
                    [k \in DOMAIN CandidateRunes |->
                        DirectMetric(combos[c], CandidateRunes[k])]], LAMBDA direct :
              /\ \A c \in DOMAIN scores :
                    \E k \in DOMAIN CandidateRunes :
                        /\ scores[c].rune = CandidateName(CandidateRunes[k])
                        /\ direct[c][k] = scores[c].metric_value
                        /\ \A earlier \in 1..(k - 1) :
                              Lt(direct[c][earlier], scores[c].metric_value)
              /\ \A c \in DOMAIN scores :
                    StablePlace(scores, c) \in DOMAIN outcome.value =>
                        outcome.value[StablePlace(scores, c)] = scores[c]
              /\ call.top_n >= Len(scores) => Len(outcome.value) = Len(scores))

\* an empty window: the three pairs of three different items and both runes of the
\* pool all score 0, the first rune of the pool is reported for each pair and the
\* pairs come back in the order they were generated
C18_Witness ==
    /\ Returned
    /\ call.metric = "dps"
    /\ call.duration = Zero
    /\ call.build_size = 2
    /\ call.rune_pool = Some(<<EntityRef("comet"), EntityRef("electrocute")>>)
    /\ Len(scores) = 3
    /\ \A c \in DOMAIN scores :
          /\ scores[c].metric_value = Zero
          /\ scores[c].rune = Runes.comet.name
    /\ \A c, d \in DOMAIN scores : scores[c].items = scores[d].items => c = d
    /\ Len(outcome.value) = 2
    /\ outcome.value = SubSeq(scores, 1, 2)

=============================================================================
